---- MODULE Spec2Model ----
(***************************************************************************)
(* Model of the Limitless lifelog synchronisation plugin.                  *)
(*                                                                         *)
(* The repository holds two generations of the plugin:                     *)
(*   - src/main.ts: the single-file plugin (cancelOngoingSync, the         *)
(*     parallel day queue of the force sync, the sequential incremental    *)
(*     sync), modelled by the Main* actions;                               *)
(*   - src/unnamed/part_003 (+ part_004): the modular plugin               *)
(*     (LimitlessPlugin, LimitlessAPIService, SummarizationService),       *)
(*     modelled by the Mod* and Sum* actions.                              *)
(* The variable impl says which of them a behaviour runs.                  *)
(*                                                                         *)
(* JavaScript is single threaded: every action is the synchronous code     *)
(* that runs between two suspension points (a network request in flight,   *)
(* a backoff sleep, a file write, a timer).                                *)
(***************************************************************************)
EXTENDS Integers, Sequences, FiniteSets, TLC

\* ------------------------------------------------------------------ bounds
Today == 2          \* calendar days are 1..Today; Today is the current date
TicksPerDay == 1    \* timestamps per calendar day
MaxRuns == 2        \* sync runs started in one behaviour
MaxFaults == 1      \* error responses and storage failures in one behaviour
ClockSteps == 1     \* ticks of the wall clock in one behaviour

\* ------------------------------------------------------- program constants
MAX_RETRIES == 5
BASE_DELAY == 2000      \* milliseconds
HoursPerDay == 3        \* instants per calendar day of a date enumeration
QueueDates == 6          \* dates of the full sync of the day queue model
RangeDays == 3          \* calendar days of a date enumeration: 0..RangeDays-1
MaxMore == 2            \* nextCursor answers in one behaviour of a day sync
MaxRequests == 8        \* requests sent for one call of a request function
MAX_CONCURRENT == 5
NumNotes == 2       \* daily notes in the output folder
MaxDocLen == 3      \* tokens of a document that exists before a write
MaxLogs == 2        \* entries handed to one document write
MaxEdits == 1       \* changes of note content in one behaviour

\* ------------------------------------------------------------------- state
VARIABLES
    impl,               \* "main" | "mod" | "sum": the plugin a behaviour runs
    apiKey,             \* settings.apiKey is set
    isSyncing,          \* plugin.isSyncing
    cancelSync,         \* plugin.cancelSync
    syncProgress,       \* plugin.syncProgress (0..100)
    syncCurrent,        \* plugin.syncCurrent
    syncTotal,          \* plugin.syncTotal
    syncProgressText,   \* plugin.syncProgressText: "", "busy" (any progress
                        \* message), "complete", "cancelled" or "error"
    lastSyncTimestamp,  \* settings.lastSyncTimestamp (0 is the empty string)
    clock,              \* the wall clock, as last read by new Date()
    docs,               \* the vault: day -> entries of the day's document
    notice,             \* the Notices shown by the last step, with their run
    run,                \* the locals of each syncLifelogs call
    task,               \* the locals of each day task of each run
    faults,             \* error responses the environment may still give
    more,               \* nextCursor answers the server may still give
    starts,             \* runs that may still be started
    forceOverwrite,     \* settings.forceOverwrite
    isSummarizing,      \* plugin.isSummarizing
    cancelSummarization, \* plugin.cancelSummarization
    summarizationCurrent,       \* plugin.summarizationCurrent
    summarizationTotal,         \* plugin.summarizationTotal
    summarizationProgressText,  \* plugin.summarizationProgressText (its kind)
    noteContent,        \* the daily notes of the output folder: note -> content
    hashFile,           \* .limitless-note-hashes.json: note -> digest (0: none)
    summaries,          \* the summary folder: note -> the content summarized
    pass,               \* the locals of each summarizeAllNotes call
    edits,              \* changes of note content still to come
    wr,                 \* one document write and its repetition: the inputs
                        \* and the documents before and after
    rq,                 \* one API request: the answers still to come, the
                        \* requests sent, the sleeps made, the outcome
    range,              \* one enumeration of the dates of an incremental
                        \* sync: its inputs, its loop variable, its dates
    pool,               \* the day queue of each full sync over QueueDates
                        \* dates: its counters, its timers, its day tasks
    server              \* the pages the server holds for a date, in the
                        \* order of their cursors

sumVars == <<isSummarizing, cancelSummarization, summarizationCurrent,
             summarizationTotal, summarizationProgressText, noteContent,
             hashFile, summaries, pass, edits>>
syncVars == <<isSyncing, cancelSync, syncProgress, syncCurrent, syncTotal,
              syncProgressText, lastSyncTimestamp, clock, docs, run, task>>
vars == <<impl, apiKey, isSyncing, cancelSync, syncProgress, syncCurrent,
          syncTotal, syncProgressText, lastSyncTimestamp, clock, docs, notice,
          run, task, faults, more, starts, forceOverwrite, sumVars, wr, rq, range, pool, server>>

RunIds == 1..MaxRuns
Days == 1..Today
MaxTs == Today * TicksPerDay
InvalidDate == 0 - 1

MaxClock == MaxTs + ClockSteps

\* The calendar date of a timestamp (the clock stays within today).
DateOf(ts) == IF ts > MaxTs THEN Today ELSE ((ts - 1) \div TicksPerDay) + 1

TsOf(d) == {t \in 1..MaxTs : DateOf(t) = d}

\* ------------------------------------------------------ environment inputs
\* The start dates a run can be given (settings.startDate or the override of
\* the force sync): a past day, tomorrow, a later day, an unparseable string.
StartDates == {1, Today + 1, Today + 2, InvalidDate}

\* The pages the server may answer for date d: no entry, one entry with a
\* markdown body for any timestamp of the day, one entry without a body.
PageChoices(d) ==
    {<<>>} \cup {<<[ts |-> t, md |-> TRUE]>> : t \in TsOf(d)}
           \cup {<<[ts |-> (d - 1) * TicksPerDay + 1, md |-> FALSE]>>}

\* The answers to "lifelogs since": no entry, or one entry of any day.
SincePages == {<<>>} \cup {<<[ts |-> t, md |-> TRUE]>> : t \in 1..MaxTs}
              \cup {<<[ts |-> t, md |-> TRUE] , [ts |-> MaxTs, md |-> TRUE]>> :
                       t \in 1..MaxTs}

\* The error statuses of a request: 401, 429, a 5xx, another status (404).
ErrorStatuses == {401, 429, 500, 404}

Notes == 1..NumNotes

\* --------------------------------------------------------- initial records
IdlePass == [pc |-> "idle", forceAll |-> FALSE, todo |-> <<>>, i |-> 0,
             hashes |-> [n \in Notes |-> 0], content |-> 0, retry |-> 0,
             aborted |-> FALSE, cancelRequested |-> FALSE]

\* cancelRequested: cancelOngoingSync was called while the page loop of the
\* task was running.
IdleTask == [pc |-> "none", retry |-> 0, cursor |-> 0, acc |-> <<>>,
             cancelRequested |-> FALSE]

IdleRun == [pc |-> "idle", force |-> FALSE, first |-> 1, dateIndex |-> 0,
            activeTasks |-> 0, completedDays |-> 0, timers |-> 0,
            have |-> {}, results |-> [d \in Days |-> <<>>],
            latestTimestamp |-> 0,
            req |-> [pc |-> "none", retry |-> 0],
            command |-> FALSE,   \* called by the ribbon icon or the command
            \* history of the run, read by the properties only
            cancelRequested |-> FALSE,
            failedTs |-> {},
            exhausted |-> {},
            unauthorized |-> FALSE]

\* A document is a sequence of tokens: an entry (its timestamp, > 0) or one
\* of the fixed pieces of text below.
TitleTok == 0 - 1       \* "# <formatted date>"
NotesTok == 0 - 2       \* "## Notes"
LifelogsTok == 0 - 3    \* "## Lifelogs"
UserTok == 0 - 4        \* text typed by the user
EmptyDoc == [exists |-> FALSE, content |-> <<>>]
NoWrite == [writer |-> "none", logs |-> <<>>, calls |-> 0,
            prior |-> EmptyDoc, first |-> EmptyDoc]
NoRequest == [path |-> "none", pc |-> "none", retry |-> 0, sent |-> 0,
              n5xx |-> 0, n429 |-> 0, nnet |-> 0, last |-> 0, delay |-> 0,
              sleeps |-> 0, mono |-> TRUE, mixed |-> FALSE, error |-> "none"]
NoPool == [pc |-> "none", dateIndex |-> 0, activeTasks |-> 0, timers |-> 0,
           inflight |-> {}, claimed |-> <<>>, unstored |-> FALSE,
           cancelRequested |-> FALSE, cancelled |-> FALSE]
NoRange == [pc |-> "none", cursor |-> 0 - 1, startDate |-> 0, endDate |-> 0,
            currentDate |-> 0, allDates |-> <<>>]

\* The mutable state of the plugin object as one record, so that the
\* synchronous code between two suspension points composes as functions.
Cur == [isSyncing |-> isSyncing, cancelSync |-> cancelSync,
        syncProgress |-> syncProgress, syncCurrent |-> syncCurrent,
        syncTotal |-> syncTotal, syncProgressText |-> syncProgressText,
        lastSyncTimestamp |-> lastSyncTimestamp, clock |-> clock,
        docs |-> docs, notice |-> <<>>, run |-> run, task |-> task]

\* A call of syncLifelogs that returned and left no timer and no day task
\* behind has no locals any more.
Finished(s, r) ==
    /\ s.run[r].pc = "done"
    /\ s.run[r].timers = 0
    /\ \A d \in Days : s.task[r][d].pc \in {"none", "done"}

Set(s) ==
    /\ isSyncing' = s.isSyncing
    /\ cancelSync' = s.cancelSync
    /\ syncProgress' = s.syncProgress
    /\ syncCurrent' = s.syncCurrent
    /\ syncTotal' = s.syncTotal
    /\ syncProgressText' = s.syncProgressText
    /\ lastSyncTimestamp' = s.lastSyncTimestamp
    /\ clock' = s.clock
    /\ docs' = s.docs
    /\ notice' = s.notice
    /\ run' = [r \in RunIds |-> IF Finished(s, r)
                                 THEN [IdleRun EXCEPT !.pc = "done"]
                                 ELSE s.run[r]]
    /\ task' = [r \in RunIds |-> IF Finished(s, r)
                                  THEN [d \in Days |-> IdleTask]
                                  ELSE s.task[r]]

\* new Notice(...) shown by the code of run r (0: outside any run).
Notify(s, r, kind) == [s EXCEPT !.notice = @ \o <<[kind |-> kind, run |-> r]>>]

TaskSet(s, r, d, t) == [s EXCEPT !.task[r][d] = t]

Min(a, b) == IF a < b THEN a ELSE b

\* ===================================================== src/main.ts helpers

\* getLifelogTimestamp: the earliest content start time, else the current time.
getLifelogTimestamp(s, e) == IF e.ts # 0 THEN e.ts ELSE s.clock

\* [...allLifelogs].sort(...) with ascendingOrder off: newest first.
RECURSIVE InsertDesc(_, _)
InsertDesc(e, sq) ==
    IF sq = <<>> THEN <<e>>
    ELSE IF e.ts >= Head(sq).ts THEN <<e>> \o sq
    ELSE <<Head(sq)>> \o InsertDesc(e, Tail(sq))

RECURSIVE SortDesc(_)
SortDesc(sq) == IF sq = <<>> THEN <<>> ELSE InsertDesc(Head(sq), SortDesc(Tail(sq)))

\* The loop "if (timestamp && (!latestTimestamp || new Date(timestamp) >
\* new Date(latestTimestamp))) latestTimestamp = timestamp" over one day's list.
RECURSIVE LatestOfSeq(_, _, _)
LatestOfSeq(s, latest, sq) ==
    IF sq = <<>> THEN latest
    ELSE LET t == getLifelogTimestamp(s, Head(sq))
         IN LatestOfSeq(s, IF t # 0 /\ (latest = 0 \/ t > latest) THEN t ELSE latest,
                        Tail(sq))

\* The rendered body of a list of entries: one token per entry.
Tokens(s, sq) == [i \in 1..Len(sq) |-> getLifelogTimestamp(s, sq[i])]

\* ... and over resultsByDate.entries().
RECURSIVE LatestOfResults(_, _, _, _)
LatestOfResults(s, r, latest, d) ==
    IF d > Today THEN latest
    ELSE LatestOfResults(s, r,
             IF d \in s.run[r].have
             THEN LatestOfSeq(s, latest, s.run[r].results[d]) ELSE latest,
             d + 1)

RECURSIVE TotalOfResults(_, _, _)
TotalOfResults(s, r, d) ==
    IF d > Today THEN 0
    ELSE (IF d \in s.run[r].have THEN Len(s.run[r].results[d]) ELSE 0)
         + TotalOfResults(s, r, d + 1)

\* Math.floor((completedDays / totalDays) * 100)
Percent(done, total) == IF total > 0 THEN (done * 100) \div total ELSE 0

\* ================================================ src/main.ts: one day task
\* The result of running a day task up to its next suspension point:
\* out = "susp" (suspended again), "ret" (fetchAllLifelogsForDay returned
\* task.acc) or "throw" (it raised).
Step(s, out) == [s |-> s, out |-> out]

\* fetchLifelogs up to "await requestUrl": the two cancel checks, then the
\* request is in flight.
fetchLifelogs(s, r, d, cursor, retry) ==
    IF s.cancelSync
    THEN Step(s, "throw")
    ELSE Step(TaskSet(s, r, d, [s.task[r][d] EXCEPT !.pc = "inflight",
                                    !.cursor = cursor, !.retry = retry]),
              "susp")

\* fetchAllLifelogsForDay after its page loop: sort, build the content and
\* start the write, unless nothing was fetched or the sync is cancelled.
AfterPageLoop(s, r, d) ==
    IF Len(s.task[r][d].acc) > 0 /\ ~s.cancelSync
    THEN Step([TaskSet(s, r, d, [s.task[r][d] EXCEPT !.pc = "writing"])
                 EXCEPT !.syncProgressText = "busy"], "susp")
    ELSE Step(s, "ret")

\* fetchAllLifelogsForDay from its entry to the first request.
fetchAllLifelogsForDay(s, r, d) ==
    IF s.cancelSync
    THEN Step(TaskSet(s, r, d, [IdleTask EXCEPT !.pc = "started"]), "ret")
    ELSE fetchLifelogs(TaskSet(s, r, d, [IdleTask EXCEPT !.pc = "started"]),
                       r, d, 0, 0)

\* A page loop that asks for the page after the one it asked for last,
\* whatever nextCursor the answer carried.
OnPageCountingCursor(s, r, d, entries, next) ==
    IF s.cancelSync
    THEN Step(s, "throw")
    ELSE LET kept == SelectSeq(entries, LAMBDA e : e.md)
             s1 == TaskSet(s, r, d, [s.task[r][d] EXCEPT !.acc = @ \o kept])
         IN IF next # 0
            THEN fetchLifelogs(s1, r, d, s.task[r][d].cursor + 1, 0)
            ELSE AfterPageLoop(s1, r, d)

\* requestUrl resolved with a page: the rest of fetchLifelogs, then the body
\* of the page loop and its next iteration.
OnPage(s, r, d, entries, next) ==
    IF s.cancelSync
    THEN Step(s, "throw")
    ELSE LET kept == SelectSeq(entries, LAMBDA e : e.md)
             s1 == TaskSet(s, r, d, [s.task[r][d] EXCEPT !.acc = @ \o kept])
             s2 == IF Len(entries) > 0
                   THEN [s1 EXCEPT !.syncProgressText = "busy"] ELSE s1
         IN IF next # 0
            THEN fetchLifelogs(s2, r, d, next, 0)
            ELSE AfterPageLoop(s2, r, d)

\* requestUrl rejected with a status: the catch block of fetchLifelogs.
OnError(s, r, d, status) ==
    LET t == s.task[r][d]
        sleeping == TaskSet(s, r, d, [t EXCEPT !.pc = "sleeping"])
    IN IF status = 401
       THEN Step([s EXCEPT !.run[r].unauthorized = TRUE], "throw")
       ELSE IF s.cancelSync THEN Step(s, "throw")
       ELSE IF status >= 500 /\ status < 600
       THEN IF t.retry < MAX_RETRIES
            THEN Step([sleeping EXCEPT !.syncProgressText = "busy"], "susp")
            ELSE Step([s EXCEPT !.run[r].exhausted = @ \cup {d}], "throw")
       ELSE IF status = 429
       THEN Step([sleeping EXCEPT !.syncProgressText = "busy"], "susp")
       ELSE Step(s, "throw")

\* The backoff sleep ended: "return this.fetchLifelogs(..., retryCount + 1)".
OnWake(s, r, d) ==
    fetchLifelogs(s, r, d, s.task[r][d].cursor, s.task[r][d].retry + 1)

\* createOrAppendToDailyNote: the document it leaves. An existing file is
\* modified to the content and a missing one created with it; the
\* forceOverwrite parameter is not read.
createOrAppendToDailyNote(doc, content, overwrite) ==
    [exists |-> TRUE, content |-> content]

\* createOrAppendToDailyNote ended: the document named after the first
\* entry's date now holds the sorted entries, or the error was caught and
\* logged; fetchAllLifelogsForDay returns allLifelogs in both cases.
OnWritten(s, r, d, ok) ==
    LET acc == s.task[r][d].acc
        lifelogDate == DateOf(getLifelogTimestamp(s, acc[1]))
    IN IF ok
       THEN Step([s EXCEPT !.docs[lifelogDate] =
                      createOrAppendToDailyNote(
                          @, Tokens(s, SortDesc(acc)),
                          s.run[r].force \/ forceOverwrite)],
                 "ret")
       ELSE Step([s EXCEPT !.run[r].failedTs =
                      @ \cup {getLifelogTimestamp(s, acc[i]) : i \in 1..Len(acc)}],
                 "ret")

\* ============================================ src/main.ts: syncLifelogs run
LastDate == Today
NumDates(s, r) == IF s.run[r].first > LastDate THEN 0
                  ELSE LastDate - s.run[r].first + 1
\* allDates[i], i counted from 0
DateAt(s, r, i) == s.run[r].first + i

\* syncLifelogs returns; the callback of the ribbon icon and of the command
\* goes on with its own notice (lines 523-526 and 536-539).
EndRun(s, r, outcome) ==
    LET s1 == [Notify(s, r, outcome) EXCEPT !.run[r].pc = "done"]
    IN IF s.run[r].command THEN Notify(s1, r, "synced") ELSE s1

\* The tail of syncLifelogs with the timestamp update made in both modes.
FinishRunAlways(s, r, total, latest) ==
    IF total = 0
    THEN EndRun([s EXCEPT !.syncProgressText = "complete",
                     !.syncProgress = 100, !.isSyncing = FALSE], r, "nonew")
    ELSE [s EXCEPT !.lastSyncTimestamp = latest, !.run[r].pc = "saving"]

\* The tail of syncLifelogs shared by both modes (lines 1334-1366), entered
\* when the sync was not seen cancelled.
FinishRun(s, r, total, latest) ==
    IF total = 0
    THEN EndRun([s EXCEPT !.syncProgressText = "complete",
                     !.syncProgress = 100, !.isSyncing = FALSE], r, "nonew")
    ELSE IF ~s.run[r].force
    THEN [s EXCEPT !.lastSyncTimestamp = latest, !.run[r].pc = "saving"]
    ELSE EndRun([s EXCEPT
                     !.syncProgressText = "complete",
                     !.syncProgress = 100, !.isSyncing = FALSE],
                r, "forcecompleted")

\* The run declared cancelled: flags reset, run ends.
CancelledRun(s, r) ==
    EndRun([s EXCEPT !.syncProgressText = "cancelled",
                !.isSyncing = FALSE, !.cancelSync = FALSE], r, "cancelled")

\* The continuation of "await new Promise" in the force sync (lines
\* 1189-1212 and the tail).
PoolResolved(s, r) ==
    LET total == TotalOfResults(s, r, 1)
        latest == LatestOfResults(s, r, s.run[r].latestTimestamp, 1)
    IN IF s.cancelSync THEN CancelledRun(s, r)
       ELSE FinishRun(s, r, total, latest)

\* resolve(): the first call lets syncLifelogs continue, later calls do nothing.
Resolve(s, r) == IF s.run[r].pc = "pool" THEN PoolResolved(s, r) ELSE s

\* processNextDate after fetchAllLifelogsForDay returned or raised (lines
\* 1133-1173): the try, catch and finally blocks.
PoolTaskEnd(s, r, d, out) ==
    LET rn == s.run[r]
        total == NumDates(s, r)
    IN IF out = "ret" /\ s.cancelSync
       THEN \* activeTasks--; return resolve(); finally: activeTasks-- again
            Resolve([s EXCEPT !.run[r].activeTasks = @ - 2], r)
       ELSE IF out = "ret"
       THEN LET done == rn.completedDays + 1
                s1 == [s EXCEPT !.run[r].results[d] = s.task[r][d].acc,
                                !.run[r].have = @ \cup {d},
                                !.run[r].completedDays = done,
                                !.syncCurrent = done,
                                !.syncProgress = Percent(done, total),
                                !.syncProgressText = "busy",
                                !.run[r].activeTasks = @ - 1,
                                !.run[r].timers = @ + 1]
            IN IF done % 10 = 0 \/ done = total
               THEN Notify(s1, r, "progress") ELSE s1
       ELSE LET s1 == [s EXCEPT !.run[r].results[d] = <<>>,
                                !.run[r].have = @ \cup {d},
                                !.run[r].activeTasks = @ - 1]
            IN IF s.cancelSync
               THEN IF s1.run[r].activeTasks = 0 THEN Resolve(s1, r) ELSE s1
               ELSE [s1 EXCEPT !.run[r].timers = @ + 1]

\* The incremental sync after its date loop (lines 1306-1332 and the tail).
PostLoop(s, r) ==
    LET total == TotalOfResults(s, r, 1)
        latest == LatestOfResults(s, r, s.run[r].latestTimestamp, 1)
        s1 == [s EXCEPT !.syncProgress = 100,
                        !.syncProgressText = "complete"]
    IN IF s.cancelSync THEN CancelledRun(s1, r)
       ELSE FinishRun(s1, r, total, latest)

\* The date loop of the incremental sync at its head (lines 1271-1282): the
\* next date is fetched unless the dates are exhausted or the sync cancelled.
LoopNext(s, r) ==
    LET i == s.run[r].dateIndex
    IN IF i >= NumDates(s, r) \/ s.cancelSync
       THEN PostLoop(s, r)
       ELSE fetchAllLifelogsForDay([s EXCEPT !.run[r].dateIndex = i + 1],
                                   r, DateAt(s, r, i)).s

\* The body of that loop after fetchAllLifelogsForDay returned or raised
\* (lines 1284-1303).
LoopTaskEnd(s, r, d, out) ==
    IF out = "ret" /\ s.cancelSync
    THEN PostLoop(s, r)
    ELSE IF out = "ret"
    THEN LET done == s.run[r].completedDays + 1
         IN LoopNext([s EXCEPT !.run[r].results[d] = s.task[r][d].acc,
                               !.run[r].have = @ \cup {d},
                               !.run[r].completedDays = done,
                               !.syncCurrent = done,
                               !.syncProgress = Percent(done, NumDates(s, r)),
                               !.syncProgressText = "busy"], r)
    ELSE LoopNext([s EXCEPT !.run[r].results[d] = <<>>,
                            !.run[r].have = @ \cup {d}], r)

\* A day task that returned or raised hands over to its caller.
DayEnd(s, r, d, out) ==
    LET s1 == IF s.run[r].force THEN PoolTaskEnd(s, r, d, out)
              ELSE LoopTaskEnd(s, r, d, out)
    IN TaskSet(s1, r, d, [IdleTask EXCEPT !.pc = "done"])

Continue(st, r, d) ==
    IF st.out = "susp" THEN st.s ELSE DayEnd(st.s, r, d, st.out)

\* processNextDate, called by a timer (lines 1093-1131).
processNextDate(s, r) ==
    LET rn == s.run[r]
    IN IF s.cancelSync THEN Resolve(s, r)
       ELSE IF rn.dateIndex >= NumDates(s, r)
       THEN IF rn.activeTasks = 0 THEN Resolve(s, r) ELSE s
       ELSE LET d == DateAt(s, r, rn.dateIndex)
                s1 == [s EXCEPT !.run[r].dateIndex = @ + 1,
                                !.run[r].activeTasks = @ + 1]
            IN Continue(fetchAllLifelogsForDay(s1, r, d), r, d)

\* syncLifelogs from "Set sync flags" to its first suspension point.
StartRun(s, r, force, sd) ==
    LET s0 == [s EXCEPT !.isSyncing = TRUE, !.cancelSync = FALSE,
                        !.syncProgress = 0, !.syncTotal = 0, !.syncCurrent = 0,
                        !.syncProgressText = "busy",
                        !.run[r] = [IdleRun EXCEPT !.force = force,
                                       !.latestTimestamp = s.lastSyncTimestamp]]
    IN IF force
       THEN IF sd = InvalidDate
            THEN \* startDate.toISOString() raises RangeError: the catch block
                 EndRun([s0 EXCEPT !.syncProgressText = "error",
                                   !.isSyncing = FALSE], r, "failed")
            ELSE LET s1 == [s0 EXCEPT !.run[r].first = sd, !.run[r].pc = "pool"]
                 IN [s1 EXCEPT !.syncTotal = LastDate - sd + 1,
                               !.syncProgressText = "busy",
                               !.run[r].timers =
                                   Min(MAX_CONCURRENT, NumDates(s1, r))]
       ELSE LET first == IF s.lastSyncTimestamp # 0
                         THEN DateOf(s.lastSyncTimestamp)
                         ELSE IF sd = InvalidDate THEN LastDate + 1 ELSE sd
                s1 == [s0 EXCEPT !.run[r].first = first, !.run[r].pc = "loop"]
            IN LoopNext([s1 EXCEPT !.syncTotal = NumDates(s1, r),
                                   !.syncProgressText = "busy"],
                        r)

\* The run ids are handed out in order.
NextRunId(r) == run[r].pc = "idle" /\ \A q \in RunIds : q < r => run[q].pc # "idle"

\* A run is active from its start until syncLifelogs returned.
Active(r) == run[r].pc \notin {"idle", "reset", "done"}

\* ================================================== src/main.ts: actions
\* syncLifelogs(forceSync, customStartDate): ribbon icon, command, settings
\* buttons, the interval timer, the initial sync of onload.
MainSyncLifelogs(force, sd) ==
    /\ impl = "main"
    /\ IF ~apiKey THEN Set(Notify(Cur, 0, "nokey"))
       ELSE IF isSyncing THEN Set(Notify(Cur, 0, "already"))
       ELSE /\ starts > 0
            /\ \E r \in RunIds : NextRunId(r) /\ Set(StartRun(Cur, r, force, sd))
    /\ starts' = IF apiKey /\ ~isSyncing THEN starts - 1 ELSE starts
    /\ UNCHANGED <<wr, rq, range, pool, server, sumVars, impl, apiKey, faults, more, forceOverwrite>>

\* cancelOngoingSync: the cancel buttons of the settings tab.
MainCancelOngoingSync ==
    /\ impl = "main"
    /\ IF isSyncing
       THEN Set([Notify(Cur, 0, "cancel") EXCEPT
                    !.cancelSync = TRUE, !.isSyncing = FALSE,
                    !.syncProgressText = "cancelled", !.syncProgress = 0,
                    !.run = [r \in RunIds |->
                               IF Active(r)
                               THEN [run[r] EXCEPT !.cancelRequested = TRUE]
                               ELSE run[r]],
                    !.task = [r \in RunIds |-> [d \in Days |->
                               IF task[r][d].pc \in {"inflight", "sleeping"}
                               THEN [task[r][d] EXCEPT !.cancelRequested = TRUE]
                               ELSE task[r][d]]]])
       ELSE Set(Notify(Cur, 0, "notrunning"))
    /\ UNCHANGED <<wr, rq, range, pool, server, sumVars, impl, apiKey, faults, more, starts, forceOverwrite>>

\* A timer set by the force sync fires: processNextDate.
MainTimer(r) ==
    /\ impl = "main"
    /\ run[r].timers > 0
    /\ Set(processNextDate([Cur EXCEPT !.run[r].timers = @ - 1], r))
    /\ UNCHANGED <<wr, rq, range, pool, server, sumVars, impl, apiKey, faults, more, starts, forceOverwrite>>

\* The server answers the request of a day task with a page.
MainPage(r, d) ==
    /\ impl = "main"
    /\ task[r][d].pc = "inflight"
    /\ \E entries \in PageChoices(d) :
       \E next \in {0} \cup (IF more > 0 THEN {task[r][d].cursor + 1} ELSE {}) :
          /\ more' = IF next # 0 THEN more - 1 ELSE more
          /\ Set(Continue(OnPage(Cur, r, d, entries, next), r, d))
    /\ UNCHANGED <<wr, rq, range, pool, server, sumVars, impl, apiKey, faults, starts, forceOverwrite>>

\* The server answers it with an error status.
MainError(r, d) ==
    /\ impl = "main"
    /\ task[r][d].pc = "inflight"
    /\ faults > 0
    /\ faults' = faults - 1
    /\ \E status \in ErrorStatuses :
          Set(Continue(OnError(Cur, r, d, status), r, d))
    /\ UNCHANGED <<wr, rq, range, pool, server, sumVars, impl, apiKey, more, starts, forceOverwrite>>

\* A backoff sleep ends.
MainWake(r, d) ==
    /\ impl = "main"
    /\ task[r][d].pc = "sleeping"
    /\ Set(Continue(OnWake(Cur, r, d), r, d))
    /\ UNCHANGED <<wr, rq, range, pool, server, sumVars, impl, apiKey, faults, more, starts, forceOverwrite>>

\* The vault finished (or failed) the write of a day's document.
MainWritten(r, d) ==
    /\ impl = "main"
    /\ task[r][d].pc = "writing"
    /\ \E ok \in BOOLEAN :
          /\ ok \/ faults > 0
          /\ faults' = IF ok THEN faults ELSE faults - 1
          /\ Set(Continue(OnWritten(Cur, r, d, ok), r, d))
    /\ UNCHANGED <<wr, rq, range, pool, server, sumVars, impl, apiKey, more, starts, forceOverwrite>>

\* saveSettings of the incremental sync ended: the success message and the
\* reset of isSyncing, or the catch block.
MainSaved(r) ==
    /\ impl = "main"
    /\ run[r].pc = "saving"
    /\ \E ok \in BOOLEAN :
          /\ ok \/ faults > 0
          /\ faults' = IF ok THEN faults ELSE faults - 1
          /\ Set(IF ok
                 THEN EndRun([Cur EXCEPT
                                 !.syncProgressText = "complete",
                                 !.syncProgress = 100, !.isSyncing = FALSE],
                             r, "completed")
                 ELSE EndRun([Cur EXCEPT
                                 !.syncProgressText = "error",
                                 !.isSyncing = FALSE], r, "failed"))
    /\ UNCHANGED <<wr, rq, range, pool, server, sumVars, impl, apiKey, more, starts, forceOverwrite>>

NextMain ==
    \/ \E force \in BOOLEAN, sd \in StartDates : MainSyncLifelogs(force, sd)
    \/ MainCancelOngoingSync
    \/ \E r \in RunIds : MainTimer(r)
    \/ \E r \in RunIds, d \in Days : MainPage(r, d)
    \/ \E r \in RunIds, d \in Days : MainError(r, d)
    \/ \E r \in RunIds, d \in Days : MainWake(r, d)
    \/ \E r \in RunIds, d \in Days : MainWritten(r, d)
    \/ \E r \in RunIds : MainSaved(r)

\* The plugin after onload, its vault and its harnesses before any call.
InitProgram ==
    /\ isSyncing = FALSE
    /\ cancelSync = FALSE
    /\ syncProgress = 0
    /\ syncCurrent = 0
    /\ syncTotal = 0
    /\ syncProgressText = ""
    /\ lastSyncTimestamp = 0
    /\ clock = MaxTs
    /\ docs = [d \in Days |-> EmptyDoc]
    /\ notice = <<>>
    /\ run = [r \in RunIds |-> IdleRun]
    /\ task = [r \in RunIds |-> [d \in Days |-> IdleTask]]
    /\ isSummarizing = FALSE
    /\ cancelSummarization = FALSE
    /\ summarizationCurrent = 0
    /\ summarizationTotal = 0
    /\ summarizationProgressText = ""
    /\ noteContent = [n \in Notes |-> 1]
    /\ hashFile = [n \in Notes |-> 0]
    /\ summaries = [n \in Notes |-> 0]
    /\ pass = [p \in RunIds |-> IdlePass]
    /\ wr = NoWrite
    /\ rq = NoRequest
    /\ range = NoRange
    /\ pool = [r \in RunIds |-> NoPool]

\* ... against a server whose answers are chosen when it answers.
InitCommon == InitProgram /\ server = <<>>

\* The single-file plugin with overlapping runs; the server serves one page
\* per day here (more = 0: no answer carries a nextCursor).
InitMain ==
    /\ impl = "main" /\ InitCommon
    /\ apiKey \in BOOLEAN /\ forceOverwrite = FALSE /\ edits = 0
    /\ faults = MaxFaults /\ more = 0 /\ starts = MaxRuns

SpecMain == InitMain /\ [][NextMain]_vars

\* The callbacks of the ribbon icon and of the command 'Sync Lifelogs':
\* "await this.syncLifelogs(); new Notice('Limitless Lifelogs synced!')".
MainCommand(sd) ==
    /\ impl = "main"
    /\ IF ~apiKey THEN Set(Notify(Notify(Cur, 0, "nokey"), 0, "synced"))
       ELSE IF isSyncing
       THEN Set(Notify(Notify(Cur, 0, "already"), 0, "synced"))
       ELSE /\ starts > 0
            /\ \E r \in RunIds :
                  /\ NextRunId(r)
                  /\ LET s1 == StartRun(Cur, r, FALSE, sd)
                     IN Set(IF s1.run[r].pc = "done"
                            THEN Notify(s1, r, "synced")
                            ELSE [s1 EXCEPT !.run[r].command = TRUE])
    /\ starts' = IF apiKey /\ ~isSyncing THEN starts - 1 ELSE starts
    /\ UNCHANGED <<wr, rq, range, pool, server, sumVars, impl, apiKey, faults, more, forceOverwrite>>

\* The single-file plugin with its ribbon icon and command.
NextCmd ==
    \/ NextMain
    \/ \E sd \in StartDates : MainCommand(sd)

InitCmd ==
    /\ impl = "main" /\ InitCommon
    /\ apiKey \in BOOLEAN /\ forceOverwrite = FALSE /\ edits = 0
    /\ faults = MaxFaults /\ more = 0 /\ starts = 1

SpecCmd == InitCmd /\ [][NextCmd]_vars

\* An entry none of whose content blocks has a startTime, with a body.
UntimedPages == {<<[ts |-> 0, md |-> TRUE]>>}

\* The server answers the request of a day task with such an entry.
MainPageUntimed(r, d) ==
    /\ impl = "main"
    /\ task[r][d].pc = "inflight"
    /\ \E entries \in UntimedPages :
          Set(Continue(OnPage(Cur, r, d, entries, 0), r, d))
    /\ UNCHANGED <<wr, rq, range, pool, server, sumVars, impl, apiKey, faults, more, starts,
                   forceOverwrite>>

\* One run of the single-file plugin against a server that pages its answers
\* and also returns entries without a start time.
NextDay ==
    \/ NextMain
    \/ \E r \in RunIds, d \in Days : MainPageUntimed(r, d)

InitDay ==
    /\ impl = "main" /\ InitCommon
    /\ apiKey = TRUE /\ forceOverwrite = FALSE /\ edits = 0
    /\ faults = MaxFaults /\ more = MaxMore /\ starts = 1

SpecDay == InitDay /\ [][NextDay]_vars

\* One run of the single-file plugin under the scheduling of the event loop:
\* a timer that is set fires, a request in flight is answered, a backoff
\* sleep ends, a file operation returns.
InitLive ==
    /\ impl = "main" /\ InitCommon
    /\ apiKey = TRUE /\ forceOverwrite = FALSE /\ edits = 0
    /\ faults = MaxFaults /\ more = 0 /\ starts = 1

FairMain ==
    /\ \A r \in RunIds : WF_vars(MainTimer(r))
    /\ \A r \in RunIds : WF_vars(MainSaved(r))
    /\ \A r \in RunIds, d \in Days : WF_vars(MainPage(r, d))
    /\ \A r \in RunIds, d \in Days : WF_vars(MainWake(r, d))
    /\ \A r \in RunIds, d \in Days : WF_vars(MainWritten(r, d))

SpecLive == InitLive /\ [][NextMain]_vars /\ FairMain

\* ==================================== src/src/utils/file-utils.ts: FileUtils
\* fileContent.includes(content): sub occurs in sq as a contiguous run.
Includes(sq, sub) ==
    \E i \in 0..(Len(sq) - Len(sub)) :
        \A j \in 1..Len(sub) : sq[i + j] = sub[j]

\* fileContent.split('## Lifelogs')[0]: the text before the first marker.
BeforeLifelogs(sq) ==
    LET first == CHOOSE i \in 1..Len(sq) :
                    sq[i] = LifelogsTok /\ \A j \in 1..(i - 1) : sq[j] # LifelogsTok
    IN SubSeq(sq, 1, first - 1)

\* formatDailyNote: title, "## Notes", "## Lifelogs", the rendered entries.
formatDailyNote(content) == <<TitleTok, NotesTok, LifelogsTok>> \o content

\* [...lifelogs].sort(...) and the rendering loop of writeLifelogsToNote.
RenderLogs(s, logs) == Tokens(s, SortDesc(logs))

\* The writer without its duplicate check and its section replacement: the
\* rendered entries are always appended.
writeLifelogsToNoteAppend(s, doc, logs, overwrite) ==
    [exists |-> TRUE,
     content |-> doc.content \o <<LifelogsTok>> \o RenderLogs(s, logs)]

\* writeLifelogsToNote after ensureOutputFolder: the document it leaves.
writeLifelogsToNote(s, doc, logs, overwrite) ==
    LET content == RenderLogs(s, logs)
    IN IF Len(logs) = 0 THEN doc
       ELSE IF doc.exists
       THEN IF Includes(doc.content, content) THEN doc
            ELSE IF overwrite
            THEN [exists |-> TRUE, content |-> formatDailyNote(content)]
            ELSE IF ~Includes(doc.content, <<LifelogsTok>>)
            THEN [exists |-> TRUE,
                  content |-> doc.content \o <<LifelogsTok>> \o content]
            ELSE [exists |-> TRUE,
                  content |-> BeforeLifelogs(doc.content) \o <<LifelogsTok>>
                              \o content]
       ELSE [exists |-> TRUE, content |-> formatDailyNote(content)]

\* -------------------------------------------- one document write, repeated
\* The documents that may exist at the path of a day before a write: any
\* text of up to MaxDocLen tokens (title, headings, user text, entries).
DocTokens == {TitleTok, NotesTok, LifelogsTok, UserTok} \cup (1..MaxTs)
PriorDocs ==
    {EmptyDoc} \cup
    {[exists |-> TRUE, content |-> c] :
        c \in UNION {[1..n -> DocTokens] : n \in 0..MaxDocLen}}

\* The entries handed to a write.
LogLists ==
    UNION {[1..n -> {[ts |-> t, md |-> TRUE] : t \in 1..MaxTs}] : n \in 0..MaxLogs}

\* The document of day 1 is as the user left it, and a write is called for
\* it: by FileUtils ("fileutils") or by the single-file plugin ("main").
FileExisting(w, d, logs) ==
    /\ impl = "file" /\ wr.writer = "none"
    /\ docs' = [docs EXCEPT ![1] = d]
    /\ wr' = [writer |-> w, logs |-> logs, calls |-> 0, prior |-> d, first |-> d]
    /\ UNCHANGED <<impl, apiKey, isSyncing, cancelSync, syncProgress,
                   syncCurrent, syncTotal, syncProgressText, lastSyncTimestamp,
                   clock, notice, run, task, faults, more, starts,
                   forceOverwrite, sumVars, rq, range, pool, server>>

\* The write runs to its end: writeLifelogsToNote(date, lifelogs) with
\* settings.forceOverwrite, or lines 911-969 of fetchAllLifelogsForDay with
\* createOrAppendToDailyNote.
FileWrite ==
    /\ impl = "file" /\ wr.writer # "none" /\ wr.calls < 2
    /\ LET new == IF wr.writer = "fileutils"
                  THEN writeLifelogsToNote(Cur, docs[1], wr.logs, forceOverwrite)
                  ELSE IF Len(wr.logs) > 0
                  THEN createOrAppendToDailyNote(
                           docs[1], Tokens(Cur, SortDesc(wr.logs)), forceOverwrite)
                  ELSE docs[1]
       IN /\ docs' = [docs EXCEPT ![1] = new]
          /\ wr' = [wr EXCEPT !.calls = @ + 1,
                              !.first = IF wr.calls = 0 THEN new ELSE @]
    /\ UNCHANGED <<impl, apiKey, isSyncing, cancelSync, syncProgress,
                   syncCurrent, syncTotal, syncProgressText, lastSyncTimestamp,
                   clock, notice, run, task, faults, more, starts,
                   forceOverwrite, sumVars, rq, range, pool, server>>

NextFile ==
    \/ \E w \in {"fileutils", "main"}, d \in PriorDocs, logs \in LogLists :
          FileExisting(w, d, logs)
    \/ FileWrite

InitFile ==
    /\ impl = "file" /\ InitCommon
    /\ apiKey = TRUE /\ forceOverwrite \in BOOLEAN /\ edits = 0
    /\ faults = 0 /\ more = 0 /\ starts = 0

SpecFile == InitFile /\ [][NextFile]_vars

\* ===================================== one API request with its retries
\* The three request functions: fetchLifelogs of main.ts ("main"),
\* fetchLifelogs of LimitlessAPIService ("service") and makeApiRequest of
\* LimitlessAPIService ("api"). Status 0 is a network failure of requestUrl.
RequestPaths == {"main", "service", "api"}
AnswerStatuses == {200, 401, 404, 429, 500, 504, 0}
Is5xx(status) == status >= 500 /\ status < 600

\* Math.random() * 1000, and the retry-after header (seconds) of a 429.
Jitter == {0, 999}
NoHeader == 0 - 1
RetryAfterChoices == {NoHeader, 1, 120}

\* baseDelayForError * 2^retryCount + Math.random() * 1000
BackoffDelay(status, retry, jitter) ==
    (IF status = 504 THEN BASE_DELAY * 2 ELSE BASE_DELAY) * 2^retry + jitter

\* min(retry-after * 1000 or BASE_DELAY * 2^retryCount, 60000)
RateLimitDelay(retryAfter, retry) ==
    Min(IF retryAfter # NoHeader THEN retryAfter * 1000
        ELSE BASE_DELAY * 2^retry, 60000)

Sleep(delay) == [out |-> "sleep", delay |-> delay, error |-> "none"]
Throw(error) == [out |-> "throw", delay |-> 0, error |-> error]

\* fetchLifelogsCatch with one retry too many after a 5xx answer.
fetchLifelogsCatchOneMore(path, cancelled, status, retry, jitter, retryAfter) ==
    IF status = 401 THEN Throw("auth")
    ELSE IF path = "main" /\ cancelled THEN Throw("cancelled")
    ELSE IF Is5xx(status)
    THEN IF retry <= MAX_RETRIES
         THEN Sleep(BackoffDelay(status, retry, jitter))
         ELSE Throw("server")
    ELSE IF status = 429 THEN Sleep(RateLimitDelay(retryAfter, retry))
    ELSE Throw("other")

\* The catch block of fetchLifelogs (main.ts; the service's differs by having
\* no cancel check): what follows an answer other than 200.
fetchLifelogsCatch(path, cancelled, status, retry, jitter, retryAfter) ==
    IF status = 401 THEN Throw("auth")
    ELSE IF path = "main" /\ cancelled THEN Throw("cancelled")
    ELSE IF Is5xx(status)
    THEN IF retry < MAX_RETRIES
         THEN Sleep(BackoffDelay(status, retry, jitter))
         ELSE Throw("server")
    ELSE IF status = 429 THEN Sleep(RateLimitDelay(retryAfter, retry))
    ELSE Throw("other")

\* makeApiRequest whose catch block retries every raised error, the
\* authentication error included.
makeApiRequestCatchRetryAll(status, retry, jitter, retryAfter) ==
    IF status = 429 \/ Is5xx(status) \/ status = 0 \/ status = 401
    THEN IF retry < MAX_RETRIES
         THEN Sleep(BASE_DELAY * 2^retry)
         ELSE Throw(IF status = 401 THEN "auth" ELSE "status")
    ELSE Throw("status")

\* makeApiRequest after an answer other than 200, its catch block included.
makeApiRequestCatch(status, retry, jitter, retryAfter) ==
    IF status = 401 THEN Throw("auth")
    ELSE IF status = 429
    THEN IF retry < MAX_RETRIES
         THEN Sleep(RateLimitDelay(retryAfter, retry))
         ELSE Throw("ratelimit")
    ELSE IF Is5xx(status)
    THEN IF retry < MAX_RETRIES
         THEN Sleep(BackoffDelay(status, retry, jitter))
         ELSE Throw("status")
    ELSE IF status = 0
    THEN IF retry < MAX_RETRIES
         THEN Sleep(BASE_DELAY * 2^retry)
         ELSE Throw("network")
    ELSE Throw("status")

AfterAnswer(path, cancelled, status, retry, jitter, retryAfter) ==
    IF path = "api"
    THEN makeApiRequestCatch(status, retry, jitter, retryAfter)
    ELSE fetchLifelogsCatch(path, cancelled, status, retry, jitter, retryAfter)

reqUnchanged ==
    UNCHANGED <<impl, apiKey, isSyncing, cancelSync, syncProgress,
                syncCurrent, syncTotal, syncProgressText, lastSyncTimestamp,
                clock, docs, notice, run, task, faults, more, starts,
                forceOverwrite, sumVars, wr, range, pool, server>>

\* A request function is called with retryCount 0 and sends its request.
ReqSend(path) ==
    /\ impl = "req" /\ rq.path = "none"
    /\ rq' = [NoRequest EXCEPT !.path = path, !.pc = "inflight", !.sent = 1]
    /\ reqUnchanged

\* The server answers the request in flight.
ReqAnswer(status, jitter, retryAfter) ==
    /\ impl = "req" /\ rq.pc = "inflight"
    /\ LET a == AfterAnswer(rq.path, cancelSync, status, rq.retry, jitter,
                            retryAfter)
           counted == [rq EXCEPT
                         !.last = status,
                         !.n5xx = IF Is5xx(status) THEN @ + 1 ELSE @,
                         !.n429 = IF status = 429 THEN @ + 1 ELSE @,
                         !.nnet = IF status = 0 THEN @ + 1 ELSE @,
                         !.mixed = @ \/ (rq.last = 504 /\ Is5xx(status)
                                         /\ status # 504)]
       IN IF status = 200
          THEN rq' = [counted EXCEPT !.pc = "ok"]
          ELSE IF a.out = "throw"
          THEN rq' = [counted EXCEPT !.pc = "failed", !.error = a.error]
          ELSE /\ rq.sent < MaxRequests
               /\ rq' = [counted EXCEPT
                           !.pc = "sleeping", !.delay = a.delay,
                           !.sleeps = @ + 1,
                           !.mono = @ /\ (rq.sleeps = 0 \/ a.delay >= rq.delay)]
    /\ reqUnchanged

\* The backoff sleep ends: the function calls itself with retryCount + 1.
ReqWake ==
    /\ impl = "req" /\ rq.pc = "sleeping"
    /\ rq' = [rq EXCEPT !.pc = "inflight", !.retry = @ + 1, !.sent = @ + 1]
    /\ reqUnchanged

NextReq ==
    \/ \E path \in RequestPaths : ReqSend(path)
    \/ \E status \in AnswerStatuses, jitter \in Jitter,
          retryAfter \in RetryAfterChoices :
          ReqAnswer(status, jitter, retryAfter)
    \/ ReqWake

InitReq ==
    /\ impl = "req" /\ InitCommon
    /\ apiKey = TRUE /\ forceOverwrite = FALSE /\ edits = 0
    /\ faults = 0 /\ more = 0 /\ starts = 0

SpecReq == InitReq /\ [][NextReq]_vars

\* ===================== src/main.ts 855-909 against a server with its pages
\* The pages of a date as the server holds them: each page has entries of
\* one kind and the cursor that names it; the first page answers the request
\* without cursor, and every page but the last carries the cursor of the
\* page after it as nextCursor.
PageKinds == {"none", "body", "nobody"}
Cursors == 1..MaxMore
Databases ==
    {sq \in UNION {[1..n -> [kind : PageKinds, cursor : Cursors]] :
                      n \in 1..(MaxMore + 1)} :
        /\ sq[1].cursor = 1     \* not used: no request asks for it by cursor
        /\ \A i, j \in 2..Len(sq) : sq[i].cursor = sq[j].cursor => i = j}

\* The entries of a page of date d.
EntriesOf(d, kind) ==
    IF kind = "none" THEN <<>>
    ELSE <<[ts |-> (d - 1) * TicksPerDay + 1, md |-> kind = "body"]>>

\* The index of the page a request with the given cursor asks for (0: the
\* cursor names no page).
PageIndex(db, cursor) ==
    IF cursor = 0 THEN 1
    ELSE IF \E i \in 2..Len(db) : db[i].cursor = cursor
    THEN CHOOSE i \in 2..Len(db) : db[i].cursor = cursor
    ELSE 0

\* meta.lifelogs.nextCursor of page i (0: none).
NextCursorOf(db, i) == IF i < Len(db) THEN db[i + 1].cursor ELSE 0

\* The server answers the request of a day task with the page its cursor
\* names.
MainPageServed(r, d) ==
    /\ impl = "main"
    /\ task[r][d].pc = "inflight"
    /\ LET i == PageIndex(server, task[r][d].cursor)
       IN IF i = 0
          THEN Set(Continue(OnPage(Cur, r, d, <<>>, 0), r, d))
          ELSE Set(Continue(OnPage(Cur, r, d, EntriesOf(d, server[i].kind),
                                   NextCursorOf(server, i)), r, d))
    /\ UNCHANGED <<wr, rq, range, pool, server, sumVars, impl, apiKey, faults, more,
                   starts, forceOverwrite>>

NextPages ==
    \/ \E force \in BOOLEAN, sd \in StartDates : MainSyncLifelogs(force, sd)
    \/ MainCancelOngoingSync
    \/ \E r \in RunIds : MainTimer(r)
    \/ \E r \in RunIds, d \in Days : MainPageServed(r, d)
    \/ \E r \in RunIds, d \in Days : MainError(r, d)
    \/ \E r \in RunIds, d \in Days : MainWake(r, d)
    \/ \E r \in RunIds, d \in Days : MainWritten(r, d)
    \/ \E r \in RunIds : MainSaved(r)

InitPages ==
    /\ impl = "main" /\ InitProgram /\ server \in Databases
    /\ apiKey = TRUE /\ forceOverwrite = FALSE /\ edits = 0
    /\ faults = MaxFaults /\ more = 0 /\ starts = 1

SpecPages == InitPages /\ [][NextPages]_vars

\* ============== src/main.ts 1213-1257: the dates of an incremental sync
\* The instants of a date enumeration are 0 .. RangeDays * HoursPerDay - 1,
\* HoursPerDay of them in each calendar day; the time zone is UTC, in which
\* the local date and the date of toISOString() are the same.
Instants == 0..(RangeDays * HoursPerDay - 1)
NoCursor == 0 - 1

\* toISOString().split('T')[0] of an instant.
IsoDate(t) == t \div HoursPerDay

\* new Date('YYYY-MM-DD'): midnight of the date.
Midnight(d) == d * HoursPerDay

\* Lines 1235-1244: the cursor when there is one (setDate(getDate()) leaves
\* it as it is), otherwise the configured start date.
incrementalStart(cursor, startDate) ==
    IF cursor # NoCursor THEN cursor ELSE Midnight(startDate)

\* Lines 1234-1251: the start and the end (now) of the enumeration.
RangeStart(cursor, startDate, now) ==
    /\ impl = "dates" /\ range.pc = "none"
    /\ LET st == incrementalStart(cursor, startDate)
       IN range' = [NoRange EXCEPT !.pc = "loop", !.cursor = cursor,
                                   !.startDate = st, !.endDate = now,
                                   !.currentDate = st]
    /\ UNCHANGED <<impl, apiKey, isSyncing, cancelSync, syncProgress,
                   syncCurrent, syncTotal, syncProgressText, lastSyncTimestamp,
                   clock, docs, notice, run, task, faults, more, starts,
                   forceOverwrite, sumVars, wr, rq, pool, server>>

\* Lines 1252-1255: one test of the while loop, and its body when the test
\* holds: setDate(getDate() + 1) moves the loop variable by one day.
RangeLoop ==
    /\ impl = "dates" /\ range.pc = "loop"
    /\ range' = IF range.currentDate <= range.endDate
                THEN [range EXCEPT
                        !.allDates = Append(@, IsoDate(range.currentDate)),
                        !.currentDate = @ + HoursPerDay]
                ELSE [range EXCEPT !.pc = "done"]
    /\ UNCHANGED <<impl, apiKey, isSyncing, cancelSync, syncProgress,
                   syncCurrent, syncTotal, syncProgressText, lastSyncTimestamp,
                   clock, docs, notice, run, task, faults, more, starts,
                   forceOverwrite, sumVars, wr, rq, pool, server>>

\* The cursor was stored by an earlier run: it is not after the clock.
NextRange ==
    \/ \E now \in Instants, startDate \in 0..(RangeDays - 1) :
          \E cursor \in {t \in Instants : t <= now} \cup {NoCursor} :
             RangeStart(cursor, startDate, now)
    \/ RangeLoop

InitRange ==
    /\ impl = "dates" /\ InitCommon
    /\ apiKey = TRUE /\ forceOverwrite = FALSE /\ edits = 0
    /\ faults = 0 /\ more = 0 /\ starts = 0

SpecRange == InitRange /\ [][NextRange]_vars

\* ================= src/main.ts 1082-1212: the day queue of the full sync
\* The queue over QueueDates dates, more than MAX_CONCURRENT of them. A day
\* task is one call of fetchAllLifelogsForDay, from its first request to its
\* return or its exception; the dates are 1..QueueDates. Every task that
\* ends stores its result under its date (resultsByDate.set) except on the
\* path recorded by the field unstored.
QCur == [isSyncing |-> isSyncing, cancelSync |-> cancelSync, pool |-> pool]

QSet(s) ==
    /\ isSyncing' = s.isSyncing
    /\ cancelSync' = s.cancelSync
    /\ pool' = s.pool

queueUnchanged ==
    UNCHANGED <<impl, apiKey, syncProgress, syncCurrent, syncTotal,
                syncProgressText, lastSyncTimestamp, clock, docs, notice, run,
                task, faults, more, forceOverwrite, sumVars, wr, rq, range, server>>

\* The continuation of "await new Promise" (lines 1189-1212) and the tail of
\* syncLifelogs: both paths of a full sync end with isSyncing = false.
QueueResolved(s, r) ==
    IF s.cancelSync
    THEN [s EXCEPT !.isSyncing = FALSE, !.cancelSync = FALSE,
                   !.pool[r].pc = "done", !.pool[r].cancelled = TRUE]
    ELSE [s EXCEPT !.isSyncing = FALSE, !.pool[r].pc = "done"]

\* resolve(): only the first call has an effect.
QueueResolve(s, r) == IF s.pool[r].pc = "pool" THEN QueueResolved(s, r) ELSE s

\* processNextDate up to the request of its day task (lines 1093-1131).
QueueProcessNextDate(s, r) ==
    LET q == s.pool[r]
    IN IF s.cancelSync THEN QueueResolve(s, r)
       ELSE IF q.dateIndex >= QueueDates
       THEN IF q.activeTasks = 0 THEN QueueResolve(s, r) ELSE s
       ELSE LET d == q.dateIndex + 1     \* allDates[dateIndex++]
            IN [s EXCEPT !.pool[r].dateIndex = @ + 1,
                         !.pool[r].activeTasks = @ + 1,
                         !.pool[r].claimed = Append(@, d),
                         !.pool[r].inflight = @ \cup {d}]

\* processNextDate after its day task returned or raised (lines 1133-1173).
QueueAfterTask(s, r, d, out) ==
    LET s0 == [s EXCEPT !.pool[r].inflight = @ \ {d}]
    IN IF out = "ret" /\ s.cancelSync
       THEN \* activeTasks--; return resolve(); finally: activeTasks-- again;
            \* resultsByDate.set is not reached
            QueueResolve([s0 EXCEPT !.pool[r].activeTasks = @ - 2,
                                    !.pool[r].unstored = TRUE], r)
       ELSE \* resultsByDate.set(dateString, ...) in the try or the catch block
            LET s1 == [s0 EXCEPT !.pool[r].activeTasks = @ - 1]
            IN IF s.cancelSync
               THEN IF s1.pool[r].activeTasks = 0
                    THEN QueueResolve(s1, r) ELSE s1
               ELSE [s1 EXCEPT !.pool[r].timers = @ + 1]

\* syncLifelogs(true) from its checks to the timers of the initial batch
\* (lines 1024-1032 and 1176-1187).
QueueStart(r) ==
    /\ impl = "pool" /\ starts > 0 /\ ~isSyncing
    /\ pool[r].pc = "none" /\ \A q \in RunIds : q < r => pool[q].pc # "none"
    /\ starts' = starts - 1
    /\ QSet([QCur EXCEPT !.isSyncing = TRUE, !.cancelSync = FALSE,
                         !.pool[r] = [NoPool EXCEPT
                             !.pc = "pool",
                             !.timers = Min(MAX_CONCURRENT, QueueDates)]])
    /\ queueUnchanged

\* A timer of the queue fires.
QueueTimer(r) ==
    /\ impl = "pool" /\ pool[r].timers > 0
    /\ QSet(QueueProcessNextDate([QCur EXCEPT !.pool[r].timers = @ - 1], r))
    /\ UNCHANGED starts /\ queueUnchanged

\* A day task ends.
QueueTaskEnd(r, d, out) ==
    /\ impl = "pool" /\ d \in pool[r].inflight
    /\ QSet(QueueAfterTask(QCur, r, d, out))
    /\ UNCHANGED starts /\ queueUnchanged

\* cancelOngoingSync while a sync is running (lines 985-1003).
QueueCancel ==
    /\ impl = "pool" /\ isSyncing
    /\ QSet([QCur EXCEPT
               !.cancelSync = TRUE, !.isSyncing = FALSE,
               !.pool = [r \in RunIds |->
                           IF pool[r].pc = "pool" \/ pool[r].timers > 0
                              \/ pool[r].inflight # {}
                           THEN [pool[r] EXCEPT !.cancelRequested = TRUE]
                           ELSE pool[r]]])
    /\ UNCHANGED starts /\ queueUnchanged

NextQueue ==
    \/ \E r \in RunIds : QueueStart(r)
    \/ \E r \in RunIds : QueueTimer(r)
    \/ \E r \in RunIds, d \in 1..QueueDates, out \in {"ret", "throw"} :
          QueueTaskEnd(r, d, out)
    \/ QueueCancel

InitQueue ==
    /\ impl = "pool" /\ InitCommon
    /\ apiKey = TRUE /\ forceOverwrite = FALSE /\ edits = 0
    /\ faults = 0 /\ more = 0 /\ starts = MaxRuns

SpecQueue == InitQueue /\ [][NextQueue]_vars

\* ================================ src/unnamed/part_003: LimitlessAPIService
\* makeApiRequest up to "await requestUrl". It has no cancel check.
makeApiRequest(s, r, retry) ==
    [s EXCEPT !.run[r].req = [pc |-> "inflight", retry |-> retry]]

\* makeApiRequest after a response with a status other than 200 (status 0:
\* requestUrl raised a network error): sleep and retry, or raise.
ModOnStatus(s, r, status) ==
    LET retry == s.run[r].req.retry
        sleeping == [s EXCEPT !.run[r].req.pc = "sleeping"]
    IN IF status = 401
       THEN Step([s EXCEPT !.run[r].unauthorized = TRUE], "throw")
       ELSE IF status = 429 \/ (status >= 500 /\ status < 600) \/ status = 0
       THEN IF retry < MAX_RETRIES THEN Step(sleeping, "susp")
            ELSE Step([s EXCEPT !.run[r].exhausted =
                                    @ \cup {s.run[r].first + s.run[r].dateIndex}],
                      "throw")
       ELSE Step(s, "throw")

\* ==================================== src/unnamed/part_003: LimitlessPlugin
\* The i-th date (from 0) of Object.keys(allLifelogsByDate).
RECURSIVE NthDay(_, _)
NthDay(S, i) ==
    LET m == CHOOSE d \in S : \A e \in S : d <= e
    IN IF i = 0 THEN m ELSE NthDay(S \ {m}, i - 1)

\* A finally block that releases isSyncing at once and still schedules the
\* reset.
ModFinallyReleasing(s, r) ==
    [s EXCEPT !.isSyncing = FALSE,
              !.run[r] = [IdleRun EXCEPT !.pc = "reset",
                             !.cancelRequested = s.run[r].cancelRequested,
                             !.exhausted = s.run[r].exhausted,
                             !.unauthorized = s.run[r].unauthorized]]

\* The finally block of syncLifelogs: the reset is scheduled 2 s later.
ModFinally(s, r) ==
    [s EXCEPT !.run[r] = [IdleRun EXCEPT !.pc = "reset",
                             !.cancelRequested = s.run[r].cancelRequested,
                             !.exhausted = s.run[r].exhausted,
                             !.unauthorized = s.run[r].unauthorized]]

\* The catch block of syncLifelogs.
ModCatch(s, r) ==
    ModFinally(Notify([s EXCEPT !.syncProgressText = "error"], r, "failed"), r)

\* syncLifelogs after the fetch function returned (lines 286-305).
ModAfterFetch(s, r) ==
    IF s.cancelSync
    THEN ModFinally(Notify([s EXCEPT !.syncProgressText = "cancelled"],
                           r, "cancelled"), r)
    ELSE IF ~s.run[r].force
    THEN \* new Date().toISOString()
         [s EXCEPT !.lastSyncTimestamp = s.clock, !.run[r].pc = "saving"]
    ELSE ModFinally(Notify([s EXCEPT !.syncProgress = 100,
                                     !.syncProgressText = "complete"],
                           r, "completed"), r)

\* fetchAllLifelogsFromStartDate: numDays = ceil((now - startDate) / msPerDay)
\* + 1; an unparseable start date gives NaN (0 here: the loop never runs).
NumDaysFrom(sd) == IF sd = InvalidDate THEN 0 ELSE Today - sd + 2

\* The write loops (lines 382-397 and 478-492) at their head, j dates done.
ModWriteLoop(s, r, j) ==
    LET n == Cardinality(s.run[r].have)
    IN IF j >= n THEN ModAfterFetch(s, r)
       ELSE IF s.cancelSync THEN ModAfterFetch(s, r)
       ELSE [s EXCEPT !.run[r].pc = "writing", !.run[r].dateIndex = j,
                      !.syncCurrent = IF s.run[r].force THEN @ ELSE j + 1,
                      !.syncProgressText = "busy",
                      !.syncProgress =
                          IF s.run[r].force
                          THEN 50 + ((j + 1) * 50) \div n
                          ELSE ((j + 1) * 100) \div n]

\* The fetch loop of fetchAllLifelogsFromStartDate at its head (lines
\* 436-458), then lines 469-476.
RECURSIVE ModForceLoop(_, _, _)
ModForceLoop(s, r, i) ==
    LET numDays == NumDaysFrom(s.run[r].first)
        date == s.run[r].first + i
        s1 == [s EXCEPT !.syncCurrent = i + 1, !.syncProgressText = "busy",
                        !.syncProgress = (i * 50) \div numDays,
                        !.run[r].dateIndex = i]
    IN IF i >= numDays
       THEN IF s.cancelSync THEN ModAfterFetch(s, r) ELSE ModWriteLoop(s, r, 0)
       ELSE IF s.cancelSync THEN ModAfterFetch(s, r)
       ELSE IF date > Today THEN ModForceLoop(s1, r, i + 1)
       ELSE makeApiRequest(s1, r, 0)

\* syncLifelogs from its entry checks to the first suspension point.
ModStartRun(s, r, force, sd) ==
    LET s0 == [s EXCEPT !.isSyncing = TRUE, !.cancelSync = FALSE,
                        !.syncProgress = 0, !.syncTotal = 0, !.syncCurrent = 0,
                        !.syncProgressText = "busy",
                        !.run[r] = [IdleRun EXCEPT !.force = force,
                                       !.pc = "fetch", !.first = sd]]
    IN IF force
       THEN IF sd # InvalidDate /\ NumDaysFrom(sd) <= 0
            THEN ModCatch(s0, r)     \* 'Start date must be in the past'
            ELSE ModForceLoop([s0 EXCEPT !.syncTotal = NumDaysFrom(sd)], r, 0)
       ELSE makeApiRequest(s0, r, 0)

\* A 200 response with its lifelogs: the rest of the fetch function.
ModOnLifelogs(s, r, logs) ==
    IF s.run[r].force
    THEN LET d == s.run[r].first + s.run[r].dateIndex
             s1 == IF Len(logs) > 0
                   THEN [s EXCEPT !.run[r].results[d] = logs,
                                  !.run[r].have = @ \cup {d}]
                   ELSE s
         IN ModForceLoop(s1, r, s.run[r].dateIndex + 1)
    ELSE IF s.cancelSync THEN ModAfterFetch(s, r)
    ELSE IF Len(logs) = 0
    THEN ModAfterFetch([s EXCEPT !.syncProgressText = "busy"], r)
    ELSE LET dates == {DateOf(logs[i].ts) : i \in 1..Len(logs)}
             s1 == [s EXCEPT
                      !.run[r].have = dates,
                      !.run[r].results =
                          [d \in Days |->
                             SelectSeq(logs, LAMBDA e : DateOf(e.ts) = d)],
                      !.syncTotal = Cardinality(dates)]
         IN ModWriteLoop(s1, r, 0)

\* makeApiRequest raised and no per-day catch block around the call.
ModOnThrowFatal(s, r) == ModCatch(s, r)

\* makeApiRequest raised: caught per day by the force sync, fatal for the
\* incremental sync.
ModOnThrow(s, r) ==
    IF s.run[r].force
    THEN ModForceLoop(s, r, s.run[r].dateIndex + 1)
    ELSE ModCatch(s, r)

\* ======================================== src/unnamed/part_003: actions
\* syncLifelogs without its isSyncing check.
ModSyncLifelogsUnguarded(force, sd) ==
    /\ impl = "mod"
    /\ IF ~apiKey THEN Set(Notify(Cur, 0, "nokey")) /\ UNCHANGED starts
       ELSE /\ starts > 0 /\ starts' = starts - 1
            /\ \E r \in RunIds :
                  NextRunId(r) /\ Set(ModStartRun(Cur, r, force, sd))
    /\ UNCHANGED <<wr, rq, range, pool, server, sumVars, impl, apiKey, faults, more, forceOverwrite>>

\* syncLifelogs(forceFull): commands, settings buttons, initial sync.
ModSyncLifelogs(force, sd) ==
    /\ impl = "mod"
    /\ IF isSyncing THEN Set(Notify(Cur, 0, "already"))
       ELSE IF ~apiKey THEN Set(Notify(Cur, 0, "nokey"))
       ELSE /\ starts > 0
            /\ \E r \in RunIds :
                  NextRunId(r) /\ Set(ModStartRun(Cur, r, force, sd))
    /\ starts' = IF apiKey /\ ~isSyncing THEN starts - 1 ELSE starts
    /\ UNCHANGED <<wr, rq, range, pool, server, sumVars, impl, apiKey, faults, more, forceOverwrite>>

\* The callback of registerSyncInterval (summarization is off here).
ModInterval(sd) ==
    /\ impl = "mod"
    /\ apiKey
    /\ IF ~isSyncing
       THEN /\ starts > 0
            /\ \E r \in RunIds :
                  NextRunId(r) /\ Set(ModStartRun(Cur, r, FALSE, sd))
            /\ starts' = starts - 1
       ELSE Set(Cur) /\ starts' = starts
    /\ UNCHANGED <<wr, rq, range, pool, server, sumVars, impl, apiKey, faults, more, forceOverwrite>>

\* cancelSyncOperation: the command and the cancel button.
ModCancelSyncOperation ==
    /\ impl = "mod"
    /\ IF ~isSyncing THEN Set(Notify(Cur, 0, "notrunning"))
       ELSE Set([Notify(Cur, 0, "cancel") EXCEPT
                    !.cancelSync = TRUE, !.syncProgressText = "cancelling",
                    !.run = [r \in RunIds |->
                               IF Active(r)
                               THEN [run[r] EXCEPT !.cancelRequested = TRUE]
                               ELSE run[r]]])
    /\ UNCHANGED <<wr, rq, range, pool, server, sumVars, impl, apiKey, faults, more, starts, forceOverwrite>>

\* The server answers the request in flight with status 200.
ModResponse(r) ==
    /\ impl = "mod"
    /\ run[r].req.pc = "inflight"
    /\ \E logs \in IF run[r].force
                   THEN PageChoices(run[r].first + run[r].dateIndex)
                   ELSE SincePages :
          Set(ModOnLifelogs([Cur EXCEPT !.run[r].req.pc = "none"], r, logs))
    /\ UNCHANGED <<wr, rq, range, pool, server, sumVars, impl, apiKey, faults, more, starts, forceOverwrite>>

\* ... or with another status, or the request fails in the network.
ModError(r) ==
    /\ impl = "mod"
    /\ run[r].req.pc = "inflight"
    /\ faults > 0
    /\ faults' = faults - 1
    /\ \E status \in ErrorStatuses \cup {0} :
          LET st == ModOnStatus(Cur, r, status)
          IN Set(IF st.out = "susp" THEN st.s
                 ELSE ModOnThrow([st.s EXCEPT !.run[r].req.pc = "none"], r))
    /\ UNCHANGED <<wr, rq, range, pool, server, sumVars, impl, apiKey, more, starts, forceOverwrite>>

\* A backoff sleep of makeApiRequest ends: the request is sent again.
ModWake(r) ==
    /\ impl = "mod"
    /\ run[r].req.pc = "sleeping"
    /\ Set(makeApiRequest(Cur, r, run[r].req.retry + 1))
    /\ UNCHANGED <<wr, rq, range, pool, server, sumVars, impl, apiKey, faults, more, starts, forceOverwrite>>

\* writeLifelogsToNote ended or raised.
ModWritten(r) ==
    /\ impl = "mod"
    /\ run[r].pc = "writing"
    /\ LET d == NthDay(run[r].have, run[r].dateIndex)
           logs == run[r].results[d]
       IN \E ok \in BOOLEAN :
             /\ ok \/ faults > 0
             /\ faults' = IF ok THEN faults ELSE faults - 1
             /\ Set(IF ok
                    THEN ModWriteLoop(
                             [Cur EXCEPT !.run[r].pc = "fetch",
                                 !.docs[d] = writeLifelogsToNote(
                                     Cur, docs[d], logs, forceOverwrite)],
                             r, run[r].dateIndex + 1)
                    ELSE ModCatch(Cur, r))
    /\ UNCHANGED <<wr, rq, range, pool, server, sumVars, impl, apiKey, more, starts, forceOverwrite>>

\* saveSettings of the incremental sync ended or raised.
ModSaved(r) ==
    /\ impl = "mod"
    /\ run[r].pc = "saving"
    /\ \E ok \in BOOLEAN :
          /\ ok \/ faults > 0
          /\ faults' = IF ok THEN faults ELSE faults - 1
          /\ Set(IF ok
                 THEN LET s1 == [Cur EXCEPT !.syncProgress = 100,
                                            !.syncProgressText = "complete"]
                      IN ModFinally(IF cancelSync THEN s1
                                    ELSE Notify(s1, r, "completed"), r)
                 ELSE ModCatch(Cur, r))
    /\ UNCHANGED <<wr, rq, range, pool, server, sumVars, impl, apiKey, more, starts, forceOverwrite>>

\* The timer set by the finally block fires.
ModReset(r) ==
    /\ impl = "mod"
    /\ run[r].pc = "reset"
    /\ Set([Cur EXCEPT !.isSyncing = FALSE, !.cancelSync = FALSE,
                       !.syncProgress = 0, !.syncCurrent = 0, !.syncTotal = 0,
                       !.syncProgressText = "", !.run[r].pc = "done"])
    /\ UNCHANGED <<wr, rq, range, pool, server, sumVars, impl, apiKey, faults, more, starts, forceOverwrite>>

\* Time passes.
ModTick ==
    /\ impl = "mod"
    /\ isSyncing
    /\ clock < MaxClock
    /\ Set([Cur EXCEPT !.clock = clock + 1])
    /\ UNCHANGED <<wr, rq, range, pool, server, sumVars, impl, apiKey, faults, more, starts, forceOverwrite>>

NextMod ==
    \/ \E force \in BOOLEAN, sd \in StartDates : ModSyncLifelogs(force, sd)
    \/ \E sd \in StartDates : ModInterval(sd)
    \/ ModCancelSyncOperation
    \/ \E r \in RunIds : ModResponse(r)
    \/ \E r \in RunIds : ModError(r)
    \/ \E r \in RunIds : ModWake(r)
    \/ \E r \in RunIds : ModWritten(r)
    \/ \E r \in RunIds : ModSaved(r)
    \/ \E r \in RunIds : ModReset(r)
    \/ ModTick

InitMod ==
    /\ impl = "mod" /\ InitCommon
    /\ apiKey \in BOOLEAN /\ forceOverwrite \in BOOLEAN /\ edits = 0
    /\ faults = MaxFaults /\ more = 0 /\ starts = MaxRuns

SpecMod == InitMod /\ [][NextMod]_vars

\* The documents a user may leave at the path of day d: none, free text, a
\* daily note with text under "## Notes" and an older entries section.
UserDocs(d) ==
    {EmptyDoc,
     [exists |-> TRUE, content |-> <<UserTok>>],
     [exists |-> TRUE,
      content |-> <<TitleTok, NotesTok, UserTok, LifelogsTok, UserTok>>]}

\* The user creates, edits or deletes the document of day d.
ModUserEdit(d, doc) ==
    /\ impl = "mod" /\ edits > 0 /\ edits' = edits - 1
    /\ doc # docs[d]
    /\ Set([Cur EXCEPT !.docs[d] = doc])
    /\ UNCHANGED <<wr, rq, range, pool, server, isSummarizing, cancelSummarization,
                   summarizationCurrent, summarizationTotal,
                   summarizationProgressText, noteContent, hashFile,
                   summaries, pass, impl, apiKey, faults, more, starts,
                   forceOverwrite>>

\* One run of the modular plugin over documents the user has edited.
NextModDocs ==
    \/ NextMod
    \/ \E d \in Days : \E doc \in UserDocs(d) : ModUserEdit(d, doc)

InitModDocs ==
    /\ impl = "mod" /\ InitCommon
    /\ apiKey = TRUE /\ forceOverwrite \in BOOLEAN /\ edits = MaxEdits
    /\ faults = MaxFaults /\ more = 0 /\ starts = 1

SpecModDocs == InitModDocs /\ [][NextModDocs]_vars

\* One full or incremental sync of either implementation against a server
\* that fails often enough to exhaust the retries of a request.
InitRetry ==
    /\ impl \in {"main", "mod"} /\ InitCommon
    /\ apiKey = TRUE /\ forceOverwrite = FALSE /\ edits = 0
    /\ faults = MAX_RETRIES + 1 /\ more = 0 /\ starts = 1

SpecRetry == InitRetry /\ [][NextMain \/ NextMod]_vars

\* Both sync implementations, each from its own initial states.
InitSync == InitMain \/ InitMod
NextSync == NextMain \/ NextMod
SpecSync == InitSync /\ [][NextSync]_vars


\* ============================================================ summarization
\* src/unnamed/part_004 (SummarizationService), its triggers in part_003 and
\* part_005.  A pass is one call of summarizeAllNotes.

\* generateSHA256: a digest of the content, taken as collision free.
generateSHA256(content) == 100 + content

SCur == [isSummarizing |-> isSummarizing,
         cancelSummarization |-> cancelSummarization,
         summarizationCurrent |-> summarizationCurrent,
         summarizationTotal |-> summarizationTotal,
         summarizationProgressText |-> summarizationProgressText,
         noteContent |-> noteContent, hashFile |-> hashFile,
         summaries |-> summaries, pass |-> pass, notice |-> <<>>]

SSet(s) ==
    /\ isSummarizing' = s.isSummarizing
    /\ cancelSummarization' = s.cancelSummarization
    /\ summarizationCurrent' = s.summarizationCurrent
    /\ summarizationTotal' = s.summarizationTotal
    /\ summarizationProgressText' = s.summarizationProgressText
    /\ noteContent' = s.noteContent
    /\ hashFile' = s.hashFile
    /\ summaries' = s.summaries
    /\ pass' = s.pass
    /\ notice' = s.notice

PassActive(p) == pass[p].pc \notin {"idle", "done"}
NextPassId(p) == pass[p].pc = "idle" /\ \A q \in RunIds : q < p => pass[q].pc # "idle"

\* folder.children of the output folder: the daily notes, then a file that is
\* not markdown and a subfolder.
Children == 1..(NumNotes + 2)
IsMarkdownFile(c) == c \in Notes

\* The loop of getNotesNeedingSummarization without the test of forceAll.
RECURSIVE NotesFromHashOnly(_, _, _)
NotesFromHashOnly(s, forceAll, n) ==
    IF n \notin Children THEN <<>>
    ELSE LET rest == NotesFromHashOnly(s, forceAll, n + 1)
         IN  IF IsMarkdownFile(n)
                /\ (s.hashFile[n] = 0
                    \/ s.hashFile[n] # generateSHA256(s.noteContent[n]))
             THEN <<n>> \o rest ELSE rest

\* getNotesNeedingSummarization: the markdown files of the folder, in folder
\* order, that have no recorded digest or a digest other than that of their
\* content; all of them when forceAll is set.
RECURSIVE NotesFrom(_, _, _)
NotesFrom(s, forceAll, n) ==
    IF n \notin Children THEN <<>>
    ELSE LET rest == NotesFrom(s, forceAll, n + 1)
         IN  IF ~IsMarkdownFile(n) THEN rest
             ELSE IF forceAll THEN <<n>> \o rest
             ELSE IF s.hashFile[n] = 0
                     \/ s.hashFile[n] # generateSHA256(s.noteContent[n])
             THEN <<n>> \o rest ELSE rest
getNotesNeedingSummarization(s, forceAll) == NotesFrom(s, forceAll, 1)

\* summarizeAllNotes, its finally block.
SumFinally(s, p) ==
    [s EXCEPT !.isSummarizing = FALSE,
              !.pass[p] = [IdlePass EXCEPT !.pc = "done"]]

\* processNotesForSummarization from the head of iteration i (1-based) on.
SumLoop(s, p, i) ==
    LET todo == s.pass[p].todo IN
    IF i > Len(todo)
    THEN IF ~s.cancelSummarization
         THEN SumFinally(Notify([s EXCEPT !.summarizationProgressText = "complete"],
                                p, "sumcomplete"), p)
         ELSE SumFinally(s, p)
    ELSE IF s.cancelSummarization
    THEN SumFinally(Notify([s EXCEPT !.summarizationProgressText = "cancelled"],
                           p, "sumcancelled"), p)
    ELSE [s EXCEPT !.summarizationCurrent = i,
                   !.summarizationProgressText = "busy",
                   !.pass[p].i = i, !.pass[p].pc = "read",
                   !.pass[p].retry = 0, !.pass[p].aborted = FALSE]

\* A per-note catch that also records the digest of the note it gave up on.
SumNoteFailedRecording(s, p) ==
    LET n == s.pass[p].todo[s.pass[p].i]
    IN SumLoop(Notify([s EXCEPT !.hashFile[n] =
                                    generateSHA256(s.noteContent[n])],
                      p, "sumerror"), p, s.pass[p].i + 1)

\* A catch around the whole loop: the first failure ends the pass.
SumNoteFailedStopping(s, p) == SumFinally(Notify(s, p, "sumerror"), p)

\* the per-note catch of processNotesForSummarization
SumNoteFailed(s, p) == SumLoop(Notify(s, p, "sumerror"), p, s.pass[p].i + 1)

\* generateNoteSummary up to its fetch
generateNoteSummary(s, p, retry) ==
    IF s.cancelSummarization THEN SumNoteFailed(s, p)
    ELSE [s EXCEPT !.pass[p].pc = "llm", !.pass[p].retry = retry,
                   !.pass[p].aborted = FALSE]

\* generateNoteSummary from the response of its fetch on; status 0 is a
\* rejected fetch (network error), status 200 a summary.
SumOnStatus(s, p, status) ==
    LET retry == s.pass[p].retry IN
    IF status = 200 THEN [s EXCEPT !.pass[p].pc = "save"]
    ELSE IF status = 429 \/ (status >= 500 /\ status < 600)
    THEN IF retry >= MAX_RETRIES THEN SumNoteFailed(s, p)
         ELSE [s EXCEPT !.pass[p].pc = "sleep"]
    ELSE IF status = 0 /\ retry < MAX_RETRIES THEN [s EXCEPT !.pass[p].pc = "sleep"]
    ELSE SumNoteFailed(s, p)

\* summarizeAllNotes up to its first await
SumStart(s, p, forceAll) ==
    [s EXCEPT !.isSummarizing = TRUE, !.cancelSummarization = FALSE,
              !.summarizationCurrent = 0, !.summarizationTotal = 0,
              !.summarizationProgressText = "checking",
              !.pass[p] = [IdlePass EXCEPT !.pc = "scan", !.forceAll = forceAll]]

\* ------------------------------------------------- summarization: the actions
\* The commands 'summarize-notes' and 'force-summarize-notes'.
SumCommand(forceAll) ==
    /\ impl = "sum" /\ starts > 0
    /\ \E p \in RunIds : NextPassId(p) /\ SSet(SumStart(SCur, p, forceAll))
    /\ starts' = starts - 1
    /\ UNCHANGED <<wr, rq, range, pool, server, syncVars, impl, apiKey, faults, more, forceOverwrite, edits>>

\* The two buttons of the settings tab.
SumButton(forceAll) ==
    /\ impl = "sum" /\ starts > 0
    /\ IF ~isSummarizing
       THEN /\ \E p \in RunIds : NextPassId(p) /\ SSet(SumStart(SCur, p, forceAll))
            /\ starts' = starts - 1
       ELSE SSet(SCur) /\ UNCHANGED starts
    /\ UNCHANGED <<wr, rq, range, pool, server, syncVars, impl, apiKey, faults, more, forceOverwrite, edits>>

\* The interval timer's summarization half.
SumInterval ==
    /\ impl = "sum" /\ starts > 0
    /\ IF ~isSummarizing
       THEN /\ \E p \in RunIds : NextPassId(p) /\ SSet(SumStart(SCur, p, FALSE))
            /\ starts' = starts - 1
       ELSE SSet(SCur) /\ UNCHANGED starts
    /\ UNCHANGED <<wr, rq, range, pool, server, syncVars, impl, apiKey, faults, more, forceOverwrite, edits>>

\* cancelOngoingSummarization: the flag, and every fetch in flight is aborted.
SumCancel ==
    /\ impl = "sum"
    /\ SSet([SCur EXCEPT !.cancelSummarization = TRUE,
                         !.pass = [p \in RunIds |->
                             IF pass[p].pc = "llm"
                             THEN [pass[p] EXCEPT !.aborted = TRUE,
                                                  !.cancelRequested = TRUE]
                             ELSE IF PassActive(p)
                             THEN [pass[p] EXCEPT !.cancelRequested = TRUE]
                             ELSE pass[p]]])
    /\ UNCHANGED <<wr, rq, range, pool, server, syncVars, impl, apiKey, faults, more, starts, forceOverwrite, edits>>

\* getNotesNeedingSummarization returns to summarizeAllNotes.
SumScanned(p) ==
    /\ impl = "sum" /\ pass[p].pc = "scan"
    /\ \E ok \in BOOLEAN :
          /\ ok \/ faults > 0
          /\ faults' = IF ok THEN faults ELSE faults - 1
          /\ LET \* readHashFile: a failed read is logged and gives {}
                 read == IF ok THEN SCur
                         ELSE [SCur EXCEPT !.hashFile = [n \in Notes |-> 0]]
                 todo == getNotesNeedingSummarization(read, pass[p].forceAll)
                 s1 == [SCur EXCEPT !.summarizationTotal = Len(todo)]
             IN  IF todo = <<>>
                 THEN SSet(SumFinally(
                             Notify([s1 EXCEPT !.summarizationProgressText = "none"],
                                    p, "sumnone"), p))
                 ELSE SSet([s1 EXCEPT !.summarizationProgressText = "busy",
                                      !.pass[p].pc = "readhash",
                                      !.pass[p].todo = todo])
    /\ UNCHANGED <<wr, rq, range, pool, server, syncVars, impl, apiKey, more, starts, forceOverwrite, edits>>

\* readHashFile returns to processNotesForSummarization: the map of the
\* file or, after a failed read (caught and logged), the empty map.
SumHashRead(p) ==
    /\ impl = "sum" /\ pass[p].pc = "readhash"
    /\ \/ /\ SSet(SumLoop([SCur EXCEPT !.pass[p].hashes = hashFile], p, 1))
          /\ UNCHANGED faults
       \/ /\ faults > 0 /\ faults' = faults - 1
          /\ SSet(SumLoop([SCur EXCEPT !.pass[p].hashes = [n \in Notes |-> 0]],
                          p, 1))
    /\ UNCHANGED <<wr, rq, range, pool, server, syncVars, impl, apiKey, more, starts, forceOverwrite, edits>>

\* vault.read of the note returns or throws.
SumRead(p) ==
    /\ impl = "sum" /\ pass[p].pc = "read"
    /\ \/ /\ SSet(generateNoteSummary(
                    [SCur EXCEPT !.pass[p].content =
                                    noteContent[pass[p].todo[pass[p].i]]], p, 0))
          /\ UNCHANGED faults
       \/ /\ faults > 0 /\ faults' = faults - 1
          /\ SSet(SumNoteFailed(SCur, p))
    /\ UNCHANGED <<wr, rq, range, pool, server, syncVars, impl, apiKey, more, starts, forceOverwrite, edits>>

\* The completion request answers with a summary.
SumResponse(p) ==
    /\ impl = "sum" /\ pass[p].pc = "llm" /\ ~pass[p].aborted
    /\ SSet(SumOnStatus(SCur, p, 200))
    /\ UNCHANGED <<wr, rq, range, pool, server, syncVars, impl, apiKey, faults, more, starts, forceOverwrite, edits>>

\* The completion request fails.
SumError(p) ==
    /\ impl = "sum" /\ pass[p].pc = "llm" /\ ~pass[p].aborted
    /\ faults > 0 /\ faults' = faults - 1
    /\ \E status \in {0, 401, 429, 500} : SSet(SumOnStatus(SCur, p, status))
    /\ UNCHANGED <<wr, rq, range, pool, server, syncVars, impl, apiKey, more, starts, forceOverwrite, edits>>

\* The aborted fetch rejects with an AbortError.
SumAborted(p) ==
    /\ impl = "sum" /\ pass[p].pc = "llm" /\ pass[p].aborted
    /\ SSet(SumNoteFailed(SCur, p))
    /\ UNCHANGED <<wr, rq, range, pool, server, syncVars, impl, apiKey, faults, more, starts, forceOverwrite, edits>>

\* The backoff sleep ends: generateNoteSummary(content, notePath, retryCount + 1).
SumWake(p) ==
    /\ impl = "sum" /\ pass[p].pc = "sleep"
    /\ SSet(generateNoteSummary(SCur, p, pass[p].retry + 1))
    /\ UNCHANGED <<wr, rq, range, pool, server, syncVars, impl, apiKey, faults, more, starts, forceOverwrite, edits>>

\* saveSummaryToFile returns or throws.
SumSaved(p) ==
    /\ impl = "sum" /\ pass[p].pc = "save"
    /\ LET n == pass[p].todo[pass[p].i] IN
       \/ /\ SSet([SCur EXCEPT !.summaries[n] = pass[p].content,
                               !.pass[p].hashes[n] = generateSHA256(pass[p].content),
                               !.pass[p].pc = "writehash"])
          /\ UNCHANGED faults
       \/ /\ faults > 0 /\ faults' = faults - 1
          /\ SSet(SumNoteFailed(SCur, p))
    /\ UNCHANGED <<wr, rq, range, pool, server, syncVars, impl, apiKey, more, starts, forceOverwrite, edits>>

\* writeHashFile returns or throws.
SumHashWritten(p) ==
    /\ impl = "sum" /\ pass[p].pc = "writehash"
    /\ LET i == pass[p].i
           s1 == [SCur EXCEPT !.hashFile = pass[p].hashes]
           s2 == IF (i - 1) % 5 = 0 \/ i = Len(pass[p].todo)
                 THEN Notify(s1, p, "sumprogress") ELSE s1
       IN  \/ SSet(SumLoop(s2, p, i + 1)) /\ UNCHANGED faults
           \/ /\ faults > 0 /\ faults' = faults - 1
              /\ SSet(SumNoteFailed(SCur, p))
    /\ UNCHANGED <<wr, rq, range, pool, server, syncVars, impl, apiKey, more, starts, forceOverwrite, edits>>

\* A sync run or the user changes the content of a daily note.
NoteEdited(n) ==
    /\ impl = "sum" /\ edits > 0 /\ edits' = edits - 1
    /\ SSet([SCur EXCEPT !.noteContent[n] = @ + 1])
    /\ UNCHANGED <<wr, rq, range, pool, server, syncVars, impl, apiKey, faults, more, starts, forceOverwrite>>

NextSum ==
    \/ \E forceAll \in BOOLEAN : SumCommand(forceAll)
    \/ \E forceAll \in BOOLEAN : SumButton(forceAll)
    \/ SumInterval
    \/ SumCancel
    \/ \E p \in RunIds : SumScanned(p)
    \/ \E p \in RunIds : SumHashRead(p)
    \/ \E p \in RunIds : SumRead(p)
    \/ \E p \in RunIds : SumResponse(p)
    \/ \E p \in RunIds : SumError(p)
    \/ \E p \in RunIds : SumAborted(p)
    \/ \E p \in RunIds : SumWake(p)
    \/ \E p \in RunIds : SumSaved(p)
    \/ \E p \in RunIds : SumHashWritten(p)
    \/ \E n \in Notes : NoteEdited(n)

InitSum ==
    /\ impl = "sum" /\ InitCommon
    /\ apiKey = TRUE /\ forceOverwrite = FALSE /\ edits = MaxEdits
    /\ faults = MaxFaults /\ more = 0 /\ starts = MaxRuns

SpecSum == InitSum /\ [][NextSum]_vars

\* ==================================================================== claims
HasNotice(kind) == \E i \in 1..Len(notice) : notice[i].kind = kind
ActiveRuns == {r \in RunIds : Active(r)}
RunStarted(r) == run[r].pc = "idle" /\ run'[r].pc # "idle"

\* A start attempt of the modular plugin: syncLifelogs is called, or the
\* interval timer fires.
ModStartAttempt ==
    \/ \E force \in BOOLEAN, sd \in StartDates : ModSyncLifelogs(force, sd)
    \/ \E sd \in StartDates : ModInterval(sd)

\* C1: in the modular plugin at most one sync run executes at any time, and a
\* start attempt made while isSyncing is true (the interval timer included)
\* starts no run, sends no request and changes no field of the run state.
C1_SingleSyncRun ==
    /\ [](Cardinality(ActiveRuns) <= 1)
    /\ [][(isSyncing /\ ModStartAttempt) => UNCHANGED syncVars]_vars
    /\ [][isSyncing => \A r \in RunIds : ~RunStarted(r)]_vars

\* A start attempt has just been rejected while a run is executing.
C1_Witness == isSyncing /\ HasNotice("already") /\ ActiveRuns # {}

\* The runs that have day-processing work in flight: a day task that has been
\* started and has not returned.
DayWorkInFlight(r) == \E d \in Days : task[r][d].pc \notin {"none", "done"}
RunsAtWork == {r \in RunIds : DayWorkInFlight(r)}

\* C2: in main.ts the day-processing work of two different runs is never in
\* flight together, a cancel followed at once by a new syncLifelogs included.
C2_NoTwoRunsAtWork == Cardinality(RunsAtWork) <= 1

ActivePasses == {p \in RunIds : PassActive(p)}

\* C3: at most one summarization run is active at any time, a start while one
\* is active begins no second run, and isSummarizing is true exactly while a
\* run is active.
C3_SingleSummarization ==
    /\ Cardinality(ActivePasses) <= 1
    /\ isSummarizing <=> ActivePasses # {}

\* C4: the persisted lastSyncTimestamp never decreases: every write a run
\* makes stores a value at or after the value stored before.
C4_CursorMonotone == [][lastSyncTimestamp' >= lastSyncTimestamp]_vars

\* The run r stores a new lastSyncTimestamp in this step: the assignment is
\* followed by the await of saveSettings.
WritesCursor(r) == run[r].pc \notin {"idle", "saving"} /\ run'[r].pc = "saving"

\* C5: a full (force) run never changes lastSyncTimestamp, whatever its
\* outcome: every step that changes it is the step of an incremental run.
C5_FullRunKeepsCursor ==
    [][lastSyncTimestamp' # lastSyncTimestamp
         => \E r \in RunIds : WritesCursor(r) /\ ~run'[r].force]_vars

\* A full run has just completed with documents written.
C5_Witness ==
    /\ HasNotice("forcecompleted")
    /\ \E d \in Days : docs[d].exists
    /\ lastSyncTimestamp = 0

\* C6: lastSyncTimestamp is written only by an incremental run for which no
\* cancel was requested before the write and which did not end with an error.
C6_OnlyCleanRunWrites ==
    [][\A r \in RunIds :
          WritesCursor(r) => ~run'[r].force /\ ~run'[r].cancelRequested]_vars

\* C7: an incremental run never advances lastSyncTimestamp to or past the
\* timestamp of an entry whose document write failed in that run.
C7_CursorBelowFailedWrite ==
    [][\A r \in RunIds :
          WritesCursor(r) => \A ts \in run'[r].failedTs : lastSyncTimestamp' < ts]_vars

\* The run r sends a request in this step.
RequestIssued(r) ==
    \/ run[r].req.pc # "inflight" /\ run'[r].req.pc = "inflight"
    \/ \E d \in Days : task[r][d].pc # "inflight" /\ task'[r][d].pc = "inflight"

\* C8: once a cancel has been requested during a run, that run sends no
\* further request: no page, no day, no retry after a pending backoff sleep.
C8_NoRequestAfterCancel ==
    [][\A r \in RunIds : run[r].cancelRequested => ~RequestIssued(r)]_vars

\* A day task of the run r is started in this step.
ClaimsDate(r) == \E d \in Days : task[r][d].pc = "none" /\ task'[r][d].pc # "none"

\* C9: in the parallel full sync of main.ts no worker claims a date after the
\* cancel, and the run is declared ended only when none of its day tasks is
\* in flight.
C9_PoolDrains ==
    /\ [](\A r \in RunIds : run[r].pc = "done" => ~DayWorkInFlight(r))
    /\ [][\A r \in RunIds :
            run[r].force /\ run[r].cancelRequested => ~ClaimsDate(r)]_vars

\* C10: every sync run that starts ends and leaves isSyncing false, whatever
\* the start date, when requests are answered and retryable failures stop.
C10_EveryRunEnds == isSyncing ~> ~isSyncing

\* The rendered body of the entries handed to the write under observation.
WrittenBody == RenderLogs(Cur, wr.logs)

\* C11: writeLifelogsToNote called twice for the same date with the same
\* entries and overwrite off leaves, after the second call, the very document
\* the first call left: created, appended to, or with its section replaced.
C11_IdempotentWrite ==
    (wr.writer = "fileutils" /\ ~forceOverwrite /\ wr.calls = 2)
        => docs[1] = wr.first

\* The second call has returned after a first call that replaced the entries
\* section of an existing document.
C11_Witness ==
    /\ wr.writer = "fileutils" /\ ~forceOverwrite /\ wr.calls = 2
    /\ wr.prior.exists /\ Includes(wr.prior.content, <<LifelogsTok>>)
    /\ wr.first # wr.prior

\* C12: with overwrite on and a document existing for the date, the write
\* replaces the whole document by a fresh header and the rendered body,
\* whatever the document held before, the rendered body included.
C12_OverwriteReplaces ==
    (/\ wr.writer = "fileutils" /\ forceOverwrite /\ wr.calls = 1
     /\ wr.prior.exists /\ Len(wr.logs) > 0)
        => docs[1] = [exists |-> TRUE, content |-> formatDailyNote(WrittenBody)]

\* The text of a document before its first "## Lifelogs" marker, the whole
\* text when it has none.
TextBeforeSection(doc) ==
    IF Includes(doc.content, <<LifelogsTok>>)
    THEN BeforeLifelogs(doc.content) ELSE doc.content

\* a is a prefix of b.
IsPrefix(a, b) == Len(a) <= Len(b) /\ SubSeq(b, 1, Len(a)) = a

\* C13: a write with overwrite off to an existing document never alters the
\* text that precedes the entries section: the text before the first marker
\* (the whole prior text when there is none) is a prefix of the new document.
C13_MergeKeepsUserText ==
    (/\ wr.writer # "none" /\ ~forceOverwrite /\ wr.calls = 1
     /\ wr.prior.exists /\ Len(wr.logs) > 0)
        => IsPrefix(TextBeforeSection(wr.prior), docs[1].content)

\* The run r of the modular plugin ends a document write without an error in
\* this step; the day written.
ModWroteDay(r) ==
    /\ run[r].pc = "writing"
    /\ run'[r].pc # "writing" \/ run'[r].dateIndex # run[r].dateIndex
    /\ \A i \in 1..Len(notice') : notice'[i].kind # "failed"
ModDayWritten(r) == NthDay(run[r].have, run[r].dateIndex)

\* C14: a full sync overwrites the document of every day it fetched entries
\* for: after the write the document is the fresh header and the rendered
\* entries, whatever the overwrite setting and the document before.
C14_FullSyncOverwrites ==
    [][\A r \in RunIds :
          (run[r].force /\ ModWroteDay(r))
             => docs'[ModDayWritten(r)] =
                   [exists |-> TRUE,
                    content |-> formatDailyNote(
                        RenderLogs(Cur, run[r].results[ModDayWritten(r)]))]]_vars

\* The request was answered by 5xx statuses only, followed at most by a 200.
Only5xx == rq.path # "none" /\ rq.n429 = 0 /\ rq.nnet = 0
           /\ (rq.last \in {0, 200} \/ Is5xx(rq.last))
ServerError == rq.error \in {"server", "status"} /\ Is5xx(rq.last)

\* The 5xx retry bound: after N 5xx answers and a 200 the request has
\* succeeded only if N <= MAX_RETRIES; a request that failed on a 5xx answer
\* failed on answer MAX_RETRIES + 1, after as many requests, with a server
\* error.
RetryBound ==
    Only5xx =>
       /\ rq.pc = "ok" => rq.n5xx <= MAX_RETRIES /\ rq.sent = rq.n5xx + 1
       /\ rq.pc = "failed" =>
             /\ rq.n5xx = MAX_RETRIES + 1
             /\ rq.sent = MAX_RETRIES + 1
             /\ ServerError

C16_AuthNeverRetried ==
    rq.last = 401 =>
       /\ rq.pc = "failed" /\ rq.error = "auth"
       /\ rq.sent = rq.n5xx + rq.n429 + rq.nnet + 1
       /\ rq.sleeps = rq.sent - 1

\* A 401 answer to a retried request of makeApiRequest.
C16_Witness == rq.last = 401 /\ rq.path = "api" /\ rq.retry > 0

\* C17: on every request path a 429 answer is followed by a sleep and a
\* retry, however many 429 answers came before: a request never fails on a
\* 429 answer.
C17_RateLimitUnbounded == rq.last = 429 => rq.pc # "failed"

\* The notices that end a run, and the one of run r shown in this step.
EndKinds == {"failed", "nonew", "forcecompleted", "completed", "cancelled"}
EndsAs(r, kinds) ==
    \E i \in 1..Len(notice') :
        notice'[i].run = r /\ notice'[i].kind \in kinds

\* A request of run r for a day is answered 5xx on its last retry in this step.
FetchExhausted(r) == run'[r].exhausted \ run[r].exhausted # {}

\* C18, the day: in a full sync a day whose fetch failed after the last
\* retry has no entries in the results of the run.
ExhaustedDayEmpty ==
    \A r \in RunIds : \A d \in run[r].exhausted :
        run[r].force => run[r].results[d] = <<>>

\* C18, the run: the step in which the fetch of a day fails for good shows no
\* failure notice and leaves the run, unless it was cancelled, at work on the next date (main.ts: the
\* next processNextDate is scheduled; modular: the next request, the write
\* loop, or the end of a run with nothing left to do); and a full sync with
\* such a day that ends without having been cancelled, and not on a failed
\* write, ends completed.
ExhaustedDayIsolated ==
    \A r \in RunIds :
       /\ (run[r].force /\ FetchExhausted(r) /\ ~run[r].cancelRequested) =>
             /\ ~EndsAs(r, {"failed"})
             /\ IF impl = "main"
                THEN run'[r].pc = "pool" /\ run'[r].timers = run[r].timers + 1
                ELSE \/ run'[r].pc = "writing"
                     \/ run'[r].req.pc = "inflight"
                        /\ run'[r].dateIndex > run[r].dateIndex
                     \/ EndsAs(r, {"completed", "cancelled"})
       /\ (/\ run[r].force /\ EndsAs(r, EndKinds)
           /\ run[r].exhausted \cup run'[r].exhausted # {}
           /\ run[r].pc # "writing"
           /\ ~cancelSync /\ ~run[r].cancelRequested)
             => EndsAs(r, {"forcecompleted", "completed", "nonew"})

\* C18: a day of a full sync whose fetch fails after exhausting its retries
\* contributes no entries and does not abort the run.
C18_FailedDayIsolated ==
    [][ExhaustedDayEmpty' /\ ExhaustedDayIsolated]_vars

\* A full sync ended completed with one day lost to an exhausted fetch and
\* the document of another day written.
C18_Witness ==
    \E r \in RunIds :
       /\ run[r].exhausted # {}
       /\ \E d \in Days \ run[r].exhausted : docs[d].exists
       /\ \E i \in 1..Len(notice) :
             notice[i] = [kind |-> "completed", run |-> r]

\* The write of a day's document by run r fails in this step.
WriteFails(r) ==
    /\ faults' < faults
    /\ \/ impl = "mod" /\ run[r].pc = "writing"
       \/ impl = "main" /\ \E d \in Days : /\ task[r][d].pc = "writing"
                                           /\ task'[r][d].pc # "writing"

\* C19: a storage failure while writing one day's document does not abort
\* the run: the step of the failed write shows no failure notice.
C19_WriteFailureIsolated ==
    [][\A r \in RunIds : WriteFails(r) => ~EndsAs(r, {"failed"})]_vars

\* C20: a run one of whose requests was answered 401 never ends reporting
\* completion or "no new lifelogs".
C20_AuthFailureSurfaced ==
    [][\A r \in RunIds :
          (run[r].unauthorized \/ run'[r].unauthorized)
             => ~EndsAs(r, {"completed", "forcecompleted", "nonew"})]_vars

\* The list a scan of pass p hands to summarizeAllNotes in this step.
ScanReturns(p) == pass[p].pc = "scan" /\ pass'[p].pc # "scan"
ScanResult(p) == IF pass'[p].pc = "readhash" THEN pass'[p].todo ELSE <<>>
NoRepeats(sq) == \A i, j \in 1..Len(sq) : sq[i] = sq[j] => i = j

\* The markdown files whose digest is absent from the hash map or differs.
ChangedNotes ==
    {n \in Notes : hashFile[n] = 0
                   \/ hashFile[n] # generateSHA256(noteContent[n])}

\* C21: a scan that read the hash map returns, each once, exactly the
\* markdown files of the folder whose digest is absent from the map or
\* differs from it, and every markdown file when forceAll is set.
C21_ChangedNotesExactly ==
    [][\A p \in RunIds :
          (ScanReturns(p) /\ faults' = faults) =>
             /\ NoRepeats(ScanResult(p))
             /\ {ScanResult(p)[i] : i \in 1..Len(ScanResult(p))} =
                   IF pass[p].forceAll THEN Notes ELSE ChangedNotes]_vars

\* A scan without forceAll has left out a note whose digest matches and
\* taken one that was changed after its summary.
C21_Witness ==
    \E p \in RunIds : \E n, m \in Notes :
       /\ pass[p].pc = "readhash" /\ ~pass[p].forceAll
       /\ pass[p].todo = <<n>> /\ m # n
       /\ hashFile[n] # 0 /\ hashFile[n] # generateSHA256(noteContent[n])
       /\ hashFile[m] = generateSHA256(noteContent[m])

\* Pass p gives up on note n in this step: the read of the note, the
\* completion request or the write of the summary failed or was cancelled.
NoteFails(p, n) ==
    /\ pass[p].pc \in {"read", "llm", "sleep", "save"}
    /\ pass[p].todo[pass[p].i] = n
    /\ \E i \in 1..Len(notice') :
          notice'[i] = [kind |-> "sumerror", run |-> p]

\* C22: a digest enters the hash file for a note only in the hash write that
\* follows a written summary of that note; the step in which a pass gives up
\* on a note leaves the note's stored entry as it was, and a note that was
\* reported as changed is still reported as changed.
C22_HashAfterSummary ==
    [][\A n \in Notes :
          /\ hashFile'[n] \notin {0, hashFile[n]} =>
                /\ summaries[n] # 0
                /\ \E p \in RunIds : /\ pass[p].pc = "writehash"
                                     /\ pass[p].hashes[n] = hashFile'[n]
          /\ \A p \in RunIds :
                NoteFails(p, n) =>
                   /\ hashFile'[n] = hashFile[n]
                   /\ n \in ChangedNotes => n \in ChangedNotes']_vars

\* A pass has just given up on a changed note, before any summary of it was
\* written, and goes on with its next note.
C22_Witness ==
    \E p \in RunIds : \E n \in Notes :
       /\ notice = <<[kind |-> "sumerror", run |-> p]>>
       /\ pass[p].pc = "read" /\ pass[p].i > 1
       /\ pass[p].todo[pass[p].i - 1] = n
       /\ summaries[n] = 0 /\ n \in ChangedNotes

\* C23: every entry a run holds as the result of the day aggregation for date
\* d has a derived timestamp whose calendar date is d.
C23_DayBucket ==
    \A r \in RunIds : \A d \in run[r].have :
       \A i \in 1..Len(run[r].results[d]) :
          DateOf(getLifelogTimestamp(Cur, run[r].results[d][i])) = d

\* The notices of this step that sum up run r (0: a start that was refused).
SummaryNotices(r) ==
    {i \in 1..Len(notice') :
        notice'[i].run = r /\ notice'[i].kind \in EndKinds \cup {"synced"}}

\* C24: a run started by the ribbon icon or the command shows exactly one
\* summary notice when it ends, and a start attempt that was refused shows
\* no success notice.
C24_OneSummaryNotice ==
    [][/\ \A r \in RunIds :
             (run[r].command /\ run'[r].pc = "done")
                => Cardinality(SummaryNotices(r)) = 1
       /\ (\E i \in 1..Len(notice') : notice'[i].kind \in {"already", "nokey"})
             => SummaryNotices(0) = {}]_vars

\* A run holds, for date d, an entry with a body that the server returned.
EntryWithBodyFetched(d) ==
    \E r \in RunIds :
       \/ /\ impl = "main"
          /\ \E i \in 1..Len(task[r][d].acc) : task[r][d].acc[i].md
       \/ /\ impl = "mod" /\ d \in run[r].have
          /\ \E i \in 1..Len(run[r].results[d]) : run[r].results[d][i].md

\* C25: a sync creates or modifies the document of a date only if an entry
\* with a non-empty body was returned for that date.
C25_OnlyDaysWithEntriesTouched ==
    [][\A d \in Days : docs'[d] # docs[d] => EntryWithBodyFetched(d)]_vars

\* C26: the incremental sync of src/main.ts enumerates exactly one day task
\* for every calendar date from the date of the stored cursor (the configured
\* start date when there is none) through today, and none for a later date,
\* whatever the time of day of the cursor and of the clock.
RangeDates == {range.allDates[i] : i \in 1..Len(range.allDates)}
C26_EveryDateThroughToday ==
    range.pc = "done" =>
       /\ NoRepeats(range.allDates)
       /\ RangeDates = IsoDate(range.startDate)..IsoDate(range.endDate)

\* C27: during a full sync of src/main.ts at most MAX_CONCURRENT day tasks
\* are in flight at any time; every date is claimed by one worker only, and
\* when the pool of a run that was not cancelled resolves, every date has
\* been processed.
QueueOfOneRun ==
    \A r \in RunIds :
       /\ Cardinality(pool[r].inflight) + pool[r].timers <= MAX_CONCURRENT
       /\ NoRepeats(pool[r].claimed)
       /\ (pool[r].pc = "done" /\ ~pool[r].cancelRequested)
             => /\ Len(pool[r].claimed) = QueueDates
                /\ pool[r].inflight = {} /\ ~pool[r].unstored
RECURSIVE TasksInFlight(_)
TasksInFlight(r) == IF r = 0 THEN 0
                    ELSE Cardinality(pool[r].inflight) + TasksInFlight(r - 1)
C27_BoundedQueueEachDateOnce ==
    QueueOfOneRun /\ TasksInFlight(MaxRuns) <= MAX_CONCURRENT

\* C28: within one day's aggregation one page request at most is in flight;
\* the request that follows a page carries the nextCursor of that page; the
\* loop ends at the first page without nextCursor and has then accumulated
\* every entry with a body of every page of the date, no other entry, in the
\* order of the pages.
RECURSIVE BodiesFrom(_, _, _)
BodiesFrom(db, d, i) ==
    IF i > Len(db) THEN <<>>
    ELSE SelectSeq(EntriesOf(d, db[i].kind), LAMBDA e : e.md)
         \o BodiesFrom(db, d, i + 1)
PageAnswered(r, d) ==
    task[r][d].pc = "inflight" /\ ~cancelSync /\ ~cancelSync'
    /\ faults' = faults /\ task'[r][d] # task[r][d]
C28_PagesInCursorOrder ==
    [][\A r \in RunIds, d \in Days : PageAnswered(r, d) =>
          LET i == PageIndex(server, task[r][d].cursor)
          IN /\ i # 0
             /\ IF NextCursorOf(server, i) # 0
                THEN /\ task'[r][d].pc = "inflight"
                     /\ task'[r][d].cursor = NextCursorOf(server, i)
                     /\ task'[r][d].acc = BodiesFrom(SubSeq(server, 1, i), d, 1)
                ELSE /\ task'[r][d].pc \in {"writing", "done", "none"}
                     /\ (IF task'[r][d].pc = "writing"
                         THEN task'[r][d].acc ELSE <<>>)
                           = BodiesFrom(server, d, 1)]_vars
C28_Witness ==
    \E r \in RunIds, d \in Days :
       /\ task[r][d].pc = "writing" /\ Len(server) = MaxMore + 1
       /\ Len(task[r][d].acc) = MaxMore + 1
       /\ server[2].cursor > server[3].cursor

\* C29: when the cancel flag is set while the page loop of a day is running,
\* a page request in flight included, fetchAllLifelogsForDay returns the
\* entries accumulated so far and does not raise: whatever page answers the
\* request in flight, the day task returns.
C29_CancelledDayReturns ==
    \A r \in RunIds, d \in Days :
       (impl = "main" /\ cancelSync /\ task[r][d].pc = "inflight") =>
          \A entries \in PageChoices(d) :
             OnPage(Cur, r, d, entries, 0).out = "ret"

\* C30: the partial results of a cancelled day are discarded: when a cancel
\* request was made before the aggregation of a day had finished, the run
\* creates or modifies no document for that day.
C30_CancelledDayNotWritten ==
    [][\A r \in RunIds, d \in Days :
          (impl = "main" /\ task[r][d].cancelRequested) =>
             /\ task'[r][d].pc # "writing"
             /\ task[r][d].pc = "writing" => docs' = docs]_vars

\* C31: after cancelOngoingSummarization was called during a pass, the pass
\* begins no further document and sends no further completion request (the
\* retry after a pending backoff sleep included).
C31_CancelStopsPass ==
    [][\A p \in RunIds : pass[p].cancelRequested =>
          /\ pass'[p].i <= pass[p].i
          /\ pass'[p].pc = "llm" => pass[p].pc = "llm"]_vars

\* C32: in a pass that is not cancelled a failure at one document (read,
\* completion request, summary write or hash write) does not stop the pass:
\* the next document of the change set is begun, or the pass ends when the
\* failed document was the last; documents are begun in order, one by one.
SumErrorShown(p) ==
    \E i \in 1..Len(notice') : notice'[i] = [kind |-> "sumerror", run |-> p]
C32_FailureIsolatedInPass ==
    [][\A p \in RunIds : (PassActive(p) /\ ~pass[p].cancelRequested) =>
          /\ SumErrorShown(p) =>
                IF pass[p].i < Len(pass[p].todo)
                THEN /\ pass'[p].pc = "read"
                     /\ pass'[p].i = pass[p].i + 1
                     /\ pass'[p].todo = pass[p].todo
                ELSE pass'[p].pc = "done"
          /\ pass'[p].i # pass[p].i =>
                pass'[p].i = pass[p].i + 1 \/ pass'[p].pc = "done"]_vars
C32_Witness ==
    \E p \in RunIds :
       /\ \E i \in 1..Len(notice) : notice[i] = [kind |-> "sumerror", run |-> p]
       /\ pass[p].pc = "read" /\ pass[p].i = 2 /\ ~pass[p].cancelRequested
       /\ hashFile[pass[p].todo[1]] = 0

\* C33: a cancellation is a normal termination and is not shown as a failure:
\* when the completion request of a document is cancelled (its fetch is
\* aborted, or the flag is found set before a request), no error notice is
\* shown for the document.
C33_CancelNotSurfaced ==
    [][\A p \in RunIds :
          (pass[p].pc \in {"llm", "sleep", "read"} /\ cancelSummarization
           /\ pass[p].cancelRequested /\ faults' = faults)
             => ~SumErrorShown(p)]_vars

\* generateNoteSummary after an answer other than 200, its catch block
\* included; status 0 is a rejected fetch ('Failed to fetch'). The 5xx delay
\* is BASE_DELAY * Math.pow(1.5, retryCount), without jitter.
generateNoteSummaryCatch(status, retry, retryAfter) ==
    IF status = 429
    THEN IF retry >= MAX_RETRIES THEN Throw("ratelimit")
         ELSE Sleep(RateLimitDelay(retryAfter, retry))
    ELSE IF Is5xx(status)
    THEN IF retry >= MAX_RETRIES THEN Throw("server")
         ELSE Sleep((BASE_DELAY * 3^retry) \div 2^retry)
    ELSE IF status = 0
    THEN IF retry < MAX_RETRIES THEN Sleep(BASE_DELAY * 2^retry)
         ELSE Throw("network")
    ELSE Throw("status")

\* C34: generateNoteSummary follows the retry policy of fetchLifelogs of the
\* API client: whenever the client has a request in flight, for every answer
\* other than 200 both take the same decision (give up, or sleep and send the
\* request again) and, jitter aside, sleep for the same time; hence both send
\* the same number of requests for every sequence of answers.
C34_SameRetryPolicy ==
    (rq.path = "service" /\ rq.pc = "inflight") =>
       \A status \in AnswerStatuses \ {200}, retryAfter \in RetryAfterChoices :
          LET a == fetchLifelogsCatch("service", FALSE, status, rq.retry, 0,
                                      retryAfter)
              b == generateNoteSummaryCatch(status, rq.retry, retryAfter)
          IN a.out = b.out /\ a.delay = b.delay

\* C35: in every reachable state, a document whose stored hash is the digest
\* of its current content has on disk the summary generated from that
\* content, for every interleaving of content changes with the steps of the
\* summarization passes, overlapping passes included.
C35_HashMatchMeansFreshSummary ==
    \A n \in Notes :
       hashFile[n] = generateSHA256(noteContent[n]) =>
          summaries[n] = noteContent[n]

\* C36: an incremental run of main.ts in which the fetch of a day failed
\* (its request answered 5xx on the last retry) does not advance
\* lastSyncTimestamp to a timestamp of a later day, so that the range of the
\* next incremental run, which starts at the date of lastSyncTimestamp, still
\* contains the failed day.
C36_CursorNotPastFailedDay ==
    [][\A r \in RunIds :
          (impl = "main" /\ WritesCursor(r) /\ ~run'[r].force) =>
             \A d \in run'[r].exhausted :
                lastSyncTimestamp' = 0 \/ DateOf(lastSyncTimestamp') <= d]_vars

\* C37: in main.ts the day task for date d writes only the document of date
\* d: the step in which its write returns leaves the document of every other
\* date as it was, whatever the entries (entries without a start time
\* included); hence two day tasks of one run never write the same document.
C37_DayTaskWritesOwnDocument ==
    [][\A r \in RunIds : \A d \in Days :
          (impl = "main" /\ task[r][d].pc = "writing"
           /\ task'[r][d].pc # "writing") =>
             \A e \in Days \ {d} : docs'[e] = docs[e]]_vars

\* C38: recording the hash of one document leaves the persisted entry of
\* every other document unchanged: the step in which a pass's write of the
\* hash file returns neither removes nor replaces the digest recorded for a
\* document other than the one the pass has just summarized.
C38_HashWriteKeepsOtherEntries ==
    [][\A p \in RunIds :
          (pass[p].pc = "writehash" /\ pass'[p].pc # "writehash"
           /\ faults' = faults) =>
             \A m \in Notes \ {pass[p].todo[pass[p].i]} :
                hashFile[m] # 0 => hashFile'[m] = hashFile[m]]_vars

\* The reset that run r scheduled fires in this step.
ResetFires(r) == impl = "mod" /\ run[r].pc = "reset" /\ run'[r].pc # "reset"

\* C39: in the modular plugin the state reset scheduled when a run ends never
\* fires during a later run: while a reset is pending isSyncing is still true
\* and no run is active, and the step in which the reset fires finds no
\* active run, so it clears the flags and counters of no active run.
C39_ResetNeverDuringRun ==
    /\ [](\A r \in RunIds :
             (impl = "mod" /\ run[r].pc = "reset") =>
                isSyncing /\ \A q \in RunIds : ~Active(q))
    /\ [][\A r \in RunIds :
             ResetFires(r) => /\ \A q \in RunIds : ~Active(q)
                              /\ ~isSyncing']_vars

\* The reset of one run has fired and a later run is active.
C39_Witness ==
    /\ impl = "mod" /\ isSyncing
    /\ \E r, q \in RunIds : run[r].pc = "done" /\ Active(q)

\* C40: in the parallel full sync of main.ts activeTasks is never negative
\* and always equals the number of day tasks claimed and not yet finished,
\* cancelled runs included.
C40_ActiveTasksCountsDayTasks ==
    \A r \in RunIds :
       /\ pool[r].activeTasks >= 0
       /\ pool[r].activeTasks = Cardinality(pool[r].inflight)

====
